---- MODULE Spec2Model ----
(***************************************************************************)
(* A model of the libfabric communication layer runtime/src/comm/ofi/      *)
(* comm-ofi.c: the transmit-context table, the PUT/GET/AMO/AM paths with   *)
(* their memory-consistency enforcement, the tree barrier, the shutdown    *)
(* handshake and the completion-queue accounting.  Each part is a state    *)
(* machine of its own over its own variables; a specification runs one    *)
(* part and leaves the others alone.                                       *)
(***************************************************************************)
EXTENDS Integers, Sequences, FiniteSets, TLC

(***************************************************************************)
(* PART 1.  The transmit-context table (tciTab).                           *)
(***************************************************************************)

\* A null pointer: not an index of tciTab.
NULL == 0 - 1

\* Tasking-layer worker threads that chpl_task_isFixedThread() is true for.
FixedThreads == {"f1"}
\* Threads that run tasks or runtime code but are not fixed workers
\* ("like the process itself", comm-ofi.c:1776-1783).
OtherThreads == {"o1"}
\* The AM handler thread (numAmHandlers = 1).
AmHandlerThreads == {"amh"}
WorkerThreads == FixedThreads \cup OtherThreads
TciThreads == WorkerThreads \cup AmHandlerThreads

numAmHandlers == 1
fixedNumThreads == Cardinality(FixedThreads)

\* How many times one thread calls tciAlloc().
MaxAllocs == 2

VARIABLES
  numWorkerTxCtxs,         \* tciTabLen - numAmHandlers
  tciTabFixedAssignments,  \* static chpl_bool tciTabFixedAssignments
  tciAllocated,            \* tciTab[i].allocated
  tciBound,                \* tciTab[i].bound
  ttcip,                   \* static __thread _ttcip, per thread
  last_iw,                 \* static __thread last_iw, per thread
  tciPc,                   \* where each thread is inside tciAlloc()/tciFree()
  scan_iw,                 \* findFreeTciTabEntry: iw
  scan_allBound,           \* findFreeTciTabEntry: allBound
  scan_tcip,               \* findFreeTciTabEntry: tcip
  tciHeld,                 \* the entry tciAlloc() returned and tciFree() has not yet got
  tciBoundBy,              \* history: the thread whose tciAllocCommon set .bound
  tciViaCache,             \* history: the last tciAlloc() returned through the bound fast path
  tciAllocs,               \* how many tciAlloc() calls each thread has made
  tciScanFirst             \* history: first index the current scan visited

tciVars == <<numWorkerTxCtxs, tciTabFixedAssignments, tciAllocated, tciBound,
             ttcip, last_iw, tciPc, scan_iw, scan_allBound, scan_tcip,
             tciHeld, tciBoundBy, tciViaCache, tciAllocs, tciScanFirst>>

\* The variables of PART 2 (one task's PUT/GET/AMO/AM traffic).
VARIABLES
  haveDeliveryComplete,    \* static chpl_bool haveDeliveryComplete
  tcipBound,               \* tcip->bound of the contexts tciAlloc() gives worker threads
  task,                    \* the initiating task: its position, locals and private data
  net,                     \* operations handed to libfabric and not yet retired
  nextId,                  \* the next operation/request identifier
  amq,                     \* AM requests landed at each node, not yet handled
  moved,                   \* tasks started by the AM handlers, and handlers in a wait
  mem,                     \* RMA-target memory of each node
  obj,                     \* the atomic object of each node
  hist                     \* history: what was issued, applied, executed, acknowledged

mcmVars == <<haveDeliveryComplete, tcipBound, task, net, nextId, amq, moved,
             mem, obj, hist>>

\* The variables of PART 3 (the tree barrier and the shutdown handshake).
VARIABLES
  barOob,                  \* the barrier callers are the thread that inited the comm layer
  barPc,                   \* where each node is in chpl_comm_barrier()/pre_task_exit()
  bar_i,                   \* the loop index i of chpl_comm_barrier()
  child_notify,            \* bar_info.child_notify[] of each node
  parent_release,          \* bar_info.parent_release of each node
  barNet,                  \* barrier PUTs and Shutdown requests in the fabric
  barEntered,              \* history: chpl_comm_barrier() calls each node has made
  barReturned,             \* history: chpl_comm_barrier() calls each node has returned from
  exiting,                 \* the node is in chpl_comm_pre_task_exit(all)
  shutdownSent,            \* history: the nodes node 0 has sent am_opShutdown to
  shutdownSignal,          \* chpl_signal_shutdown() has been called on the node
  amHandlersExit,          \* atomic_bool amHandlersExit of each node
  numAmHandlersActive      \* numAmHandlersActive of each node

barVars == <<barOob, barPc, bar_i, child_notify, parent_release, barNet,
             barEntered, barReturned, exiting, shutdownSent, shutdownSignal,
             amHandlersExit, numAmHandlersActive>>

\* The variables of PART 4 (completion-queue accounting of one transmit context).
VARIABLES
  cqSize,                  \* the depth the provider gave the context's tx CQ
  numTxnsOut,              \* tcip->numTxnsOut
  numTxnsSent,             \* tcip->numTxnsSent
  cqPc,                    \* where the thread holding the context is
  cqIssueId,               \* operations still to issue with a txnTrkId context
  cqIssueDone,             \* operations still to issue with a txnTrkDone context
  cqAfter,                 \* what the caller does once everything is issued
  cqLast,                  \* ofi_get_V(): the operation counted is the last of its group
  cqNodes,                 \* mcmReleaseAllNodes(): nodes still set in the bitmap
  cqFlightId,              \* txnTrkId operations accepted, no completion event yet
  cqFlightDone,            \* txnTrkDone operations accepted, no completion event yet
  cqEvId,                  \* txnTrkId completion events in the CQ, not yet read
  cqEvDone,                \* txnTrkDone completion events in the CQ, not yet read
  txnDone,                 \* the atomic_bool txnDone of the operation waited for
  cqOps                    \* history: calls made on the context

cqVars == <<cqSize, numTxnsOut, numTxnsSent, cqPc, cqIssueId, cqIssueDone,
            cqAfter, cqLast, cqNodes, cqFlightId, cqFlightDone, cqEvId,
            cqEvDone, txnDone, cqOps>>

\* The variables of PART 5 (one task's buffered, "unordered" PUTs).
VARIABLES
  pvBuf,                   \* put_buff_task_info_t: the PUTs buffered, info->vi of them
  pvPc,                    \* where the task is
  pv_vi,                   \* ofi_put_V(): how many of the batch are issued
  pvBitmap,                \* info->nodeBitmap
  pvNet,                   \* operations of the task's context the fabric still holds
  pvGetDone,               \* the txnDone flag of the dummy GET waited for
  pvMem,                   \* the target memory of the peers
  pvRef,                   \* history: the memory the same PUTs give one by one
  pvFlushes,               \* history: how many flushes have returned
  pvTaskEnd                \* "no", or chpl_comm_impl_task_end() is "ending"
                           \* or has returned, "ended"

pvVars == <<pvBuf, pvPc, pv_vi, pvBitmap, pvNet, pvGetDone, pvMem, pvRef,
            pvFlushes, pvTaskEnd>>

\* The variables of PART 6 (buffered non-fetching AMOs and a barrier).
VARIABLES
  nfK,                     \* how many AMOs each node other than 0 makes
  nfPc,                    \* where each node's task is
  nfReq,                   \* history: AMOs each node's task has asked for
  nfBuf,                   \* amo_nf_buff_task_info_t: info->vi of each node's task
  nfFlight,                \* AMOs of each node the fabric still holds
  nfCounter,               \* the counter object on node 0
  nfNotify,                \* each node's barrier notification of its parent
  nfRelease,               \* each node's parent_release flag
  nfRead                   \* what node 0 read after the barrier, NULL before

nfVars == <<nfK, nfPc, nfReq, nfBuf, nfFlight, nfCounter, nfNotify, nfRelease,
            nfRead>>

\* The variables of PART 7 (splitting of large transfers).
VARIABLES
  max_msg_size,            \* ofi_info->ep_attr->max_msg_size
  ckPc,                    \* where the caller of ofi_put() or ofi_get() is
  ckOp,                    \* "put" or "get"
  ckSize,                  \* the size asked for
  ck_i,                    \* the loop variable i
  chunkSize,               \* the local chunkSize
  ckXfers                  \* history: the transfers issued, in order

ckVars == <<max_msg_size, ckPc, ckOp, ckSize, ck_i, chunkSize, ckXfers>>

\* The variables of PART 8 (the AM handler thread of one node and its end).
VARIABLES
  amhPc,                   \* where the AM handler thread is
  amhExit,                 \* amHandlersExit of the node
  amhActive,               \* numAmHandlersActive of the node
  amhFini,                 \* where the thread that calls fini_amHandling() is
  amhRx,                   \* AM requests received and not yet processed
  amhArrived,              \* history: how many requests have arrived
  amhWriteOut,             \* the handler's fi_write() is with the fabric
  amhTxnDone,              \* the txnDone flag of the handler's ofi_put()
  amhNumTxnsOut,           \* numTxnsOut of the handler's context
  amhDones                 \* history: 'done' indicators handed to the fabric

amhVars == <<amhPc, amhExit, amhActive, amhFini, amhRx, amhArrived,
             amhWriteOut, amhTxnDone, amhNumTxnsOut, amhDones>>

\* The variables of PART 9 (one executeOn and its argument bundle).
VARIABLES
  xoPc,                    \* where the task that calls amRequestExecOn() is
  xoArg,                   \* the call: argSize, blocking, registered, payload
  xoMem,                   \* the initiator's memory: the caller's payload
                           \* ("arg") and the heap copy of it ("copy")
  xoMsg,                   \* the AM request in flight, or XoNull
  xoTgt,                   \* where the target's handling of the request is
  xoXol,                   \* the request the moved task of the target holds
  xoBundle,                \* the bundle the body function is called with
  xoFree,                  \* the am_opFree request in flight, or XoNull
  xoDone,                  \* the initiator's 'done' flag
  xoFrees                  \* history: who freed the heap copy, in order

xoVars == <<xoPc, xoArg, xoMem, xoMsg, xoTgt, xoXol, xoBundle, xoFree, xoDone,
           xoFrees>>

\* The variables of PART 10 (the AM landing zones of one node).
VARIABLES
  lzPosted,                \* the buffers posted on the AM receive endpoint,
                           \* oldest first
  lzFree,                  \* the free space of each landing zone
  ofi_msg_i,               \* the index the handler posted last
  lzCq,                    \* the events in ofi_rxCQ, oldest first
  lzArrived,               \* history: how many requests have arrived
  lzUnlanded               \* history: requests that found no buffer posted

lzVars == <<lzPosted, lzFree, ofi_msg_i, lzCq, lzArrived, lzUnlanded>>

\* The variables of PART 11 (a task's PUTs and its network AMOs).
VARIABLES
  amvPc,                   \* where the task is
  amvOp,                   \* the AMO of the ofi_amo() in progress
  amvBitmap,               \* the task's putBitmap
  amvPutNet,               \* the peers a PUT of the task is on its way to
  amvBuf,                  \* the target nodes of the buffered AMOs
  amvDonePending,          \* the task's amDonePending
  amvDone,                 \* the task's amDone
  amvAmNet,                \* the delayed AMs no handler has finished yet
  amvIssued,               \* history: the AMOs handed to the fabric, each
                           \* with the peers PUTs were on their way to
  amvOps                   \* history: how many operations the task called

amvVars == <<amvPc, amvOp, amvBitmap, amvPutNet, amvBuf, amvDonePending,
             amvDone, amvAmNet, amvIssued, amvOps>>

\* The variables of PART 12 (the task-local buffers of one task).
VARIABLES
  tlbPc,                   \* where the task is
  tlbCall,                 \* the call in progress, or the last one: its
                           \* kind, the types still to do, the types selected
  tlbCur,                  \* the type being flushed
  tlbPtr,                  \* per type: the task's pointer is not NULL
  tlbHeap,                 \* per type: the buffer's memory is allocated
  tlbVi,                   \* per type: info->vi
  tlbSlot,                 \* per type: what each slot holds (0: nothing)
  tlbFlight,               \* per type: the operations in flight, each with
                           \* its slot and what it was issued to send
  tlbOps,                  \* per type: how many buffered operations so far
  tlbSent,                 \* per type: how many went to the fabric
  tlbTaskEnded             \* chpl_comm_impl_task_end() has returned

tlbVars == <<tlbPc, tlbCall, tlbCur, tlbPtr, tlbHeap, tlbVi, tlbSlot,
             tlbFlight, tlbOps, tlbSent, tlbTaskEnded>>

\* The variables of PART 13 (memory registration and key lookup).
VARIABLES
  mrPc,                    \* "init", "ready", "looked_up", "INTERNAL_ERROR"
  mr_mode,                 \* ofi_info->domain_attr->mr_mode, the bits used
  fixedHeap,               \* per node: chpl_comm_impl_regMemHeapInfo()
  scalableMemReg,          \* scalableMemReg
  memTabMap,               \* per node: its memTab
  mrCall,                  \* the arguments of the last mrGetKey()
  mrRet                    \* what it returned: ret, *pKey, *pOff

mrVars == <<mrPc, mr_mode, fixedHeap, scalableMemReg, memTabMap, mrCall,
            mrRet>>

\* The variables of the parts after PART 11.
lateVars == <<tlbVars, mrVars>>

\* The variables of the parts after PART 4.
extVars == <<pvVars, nfVars, ckVars, amhVars, xoVars, lzVars, amvVars,
             lateVars>>

nonTciVars == <<mcmVars, barVars, cqVars, extVars>>

tciTabLen == numWorkerTxCtxs + numAmHandlers
TciIndexes == 0 .. (tciTabLen - 1)

chpl_task_isFixedThread(t) == t \in FixedThreads
isAmHandlerThread(t) == t \in AmHandlerThreads

\* init_ofiEp: the table is calloc'ed; with a fixed number of tasking threads
\* the table has at most fixedNumThreads + 1 worker entries and assignments
\* are fixed exactly when it has that many.
TciInit ==
  /\ numWorkerTxCtxs \in 1 .. (fixedNumThreads + 1)
  /\ tciTabFixedAssignments = (numWorkerTxCtxs = fixedNumThreads + 1)
  /\ tciAllocated = [i \in 0 .. numWorkerTxCtxs |-> FALSE]
  /\ tciBound = [i \in 0 .. numWorkerTxCtxs |-> FALSE]
  /\ ttcip = [t \in TciThreads |-> NULL]
  /\ last_iw = [t \in TciThreads |-> 0]
  /\ tciPc = [t \in TciThreads |-> "idle"]
  /\ scan_iw = [t \in TciThreads |-> 0]
  /\ scan_allBound = [t \in TciThreads |-> TRUE]
  /\ scan_tcip = [t \in TciThreads |-> NULL]
  /\ tciHeld = [t \in TciThreads |-> NULL]
  /\ tciBoundBy = [i \in 0 .. numWorkerTxCtxs |-> "nobody"]
  /\ tciViaCache = [t \in TciThreads |-> FALSE]
  /\ tciAllocs = [t \in TciThreads |-> 0]
  /\ tciScanFirst = [t \in TciThreads |-> NULL]

\* A tciAllocCommon that binds for fixed worker threads only.
BindsForWorkersOnly(t) ==
  tciTabFixedAssignments /\ chpl_task_isFixedThread(t)

\* Whether tciAllocCommon binds the entry it found.
BindsEntry(t) ==
  isAmHandlerThread(t) \/ (tciTabFixedAssignments /\ chpl_task_isFixedThread(t))

\* tciAllocCommon, lines 4059-4067: the cached entry is bound: return it with
\* no synchronization.  With no cached entry, or a cached entry that is not
\* bound, go on.
tciAllocCommon_cached(t) ==
  /\ tciPc[t] = "idle"
  /\ tciAllocs[t] < MaxAllocs
  /\ tciAllocs' = [tciAllocs EXCEPT ![t] = @ + 1]
  /\ IF ttcip[t] # NULL /\ tciBound[ttcip[t]]
       THEN /\ tciHeld' = [tciHeld EXCEPT ![t] = ttcip[t]]
            /\ tciViaCache' = [tciViaCache EXCEPT ![t] = TRUE]
            /\ tciPc' = [tciPc EXCEPT ![t] = "held"]
       ELSE /\ tciPc' = [tciPc EXCEPT ![t] =
                           IF ttcip[t] # NULL THEN "realloc" ELSE "find"]
            /\ tciViaCache' = [tciViaCache EXCEPT ![t] = FALSE]
            /\ UNCHANGED tciHeld
  /\ UNCHANGED <<numWorkerTxCtxs, tciTabFixedAssignments, tciAllocated,
                 tciBound, ttcip, last_iw, scan_iw, scan_allBound, scan_tcip,
                 tciBoundBy, tciScanFirst>>
  /\ UNCHANGED nonTciVars

\* tciAllocCommon, lines 4069-4072: atomic_exchange on the cached entry.
tciAllocCommon_realloc(t) ==
  /\ tciPc[t] = "realloc"
  /\ tciAllocated' = [tciAllocated EXCEPT ![ttcip[t]] = TRUE]
  /\ IF ~tciAllocated[ttcip[t]]
       THEN /\ tciHeld' = [tciHeld EXCEPT ![t] = ttcip[t]]
            /\ tciPc' = [tciPc EXCEPT ![t] = "held"]
       ELSE /\ tciPc' = [tciPc EXCEPT ![t] = "find"]
            /\ UNCHANGED tciHeld
  /\ UNCHANGED <<numWorkerTxCtxs, tciTabFixedAssignments, tciBound, ttcip,
                 last_iw, scan_iw, scan_allBound, scan_tcip, tciBoundBy,
                 tciViaCache, tciAllocs, tciScanFirst>>
  /\ UNCHANGED nonTciVars

\* findFreeTciTabEntry(true), lines 4101-4110: the AM handler's entry is
\* tciTab[numWorkerTxCtxs]; CHK_FALSE aborts if it was already taken.
findFreeTciTabEntry_amHandler(t) ==
  /\ tciPc[t] = "find"
  /\ isAmHandlerThread(t)
  /\ tciAllocated' = [tciAllocated EXCEPT ![numWorkerTxCtxs] = TRUE]
  /\ IF tciAllocated[numWorkerTxCtxs]
       THEN /\ tciPc' = [tciPc EXCEPT ![t] = "abort"]
            /\ UNCHANGED scan_tcip
       ELSE /\ tciPc' = [tciPc EXCEPT ![t] = "bind"]
            /\ scan_tcip' = [scan_tcip EXCEPT ![t] = numWorkerTxCtxs]
  /\ UNCHANGED <<numWorkerTxCtxs, tciTabFixedAssignments, tciBound, ttcip,
                 last_iw, scan_iw, scan_allBound, tciHeld, tciBoundBy,
                 tciViaCache, tciAllocs, tciScanFirst>>
  /\ UNCHANGED nonTciVars

\* findFreeTciTabEntry(false), lines 4118-4123: start one pass of the scan.
findFreeTciTabEntry_start(t) ==
  /\ tciPc[t] = "find"
  /\ ~isAmHandlerThread(t)
  /\ scan_iw' = [scan_iw EXCEPT ![t] = last_iw[t]]
  /\ scan_allBound' = [scan_allBound EXCEPT ![t] = TRUE]
  /\ scan_tcip' = [scan_tcip EXCEPT ![t] = NULL]
  /\ tciScanFirst' = [tciScanFirst EXCEPT ![t] = NULL]
  /\ tciPc' = [tciPc EXCEPT ![t] = "scanBound"]
  /\ UNCHANGED <<numWorkerTxCtxs, tciTabFixedAssignments, tciAllocated,
                 tciBound, ttcip, last_iw, tciHeld, tciBoundBy, tciViaCache,
                 tciAllocs>>
  /\ UNCHANGED nonTciVars

\* The index the scan moves to, lines 4126-4127.
NextIw(iw) == IF iw + 1 >= numWorkerTxCtxs THEN 0 ELSE iw + 1

AllBoundAssumed(allBound, iw) == allBound

\* Line 4128: allBound = allBound && tciTab[iw].bound.
AllBoundSoFar(allBound, iw) == allBound /\ tciBound[iw]

\* Lines 4126-4128: advance iw and read tciTab[iw].bound.
findFreeTciTabEntry_readBound(t) ==
  /\ tciPc[t] = "scanBound"
  /\ scan_iw' = [scan_iw EXCEPT ![t] = NextIw(@)]
  /\ scan_allBound' = [scan_allBound EXCEPT ![t] =
                         AllBoundSoFar(@, NextIw(scan_iw[t]))]
  /\ tciScanFirst' = [tciScanFirst EXCEPT ![t] =
                        IF @ = NULL THEN NextIw(scan_iw[t]) ELSE @]
  /\ tciPc' = [tciPc EXCEPT ![t] = "scanXchg"]
  /\ UNCHANGED <<numWorkerTxCtxs, tciTabFixedAssignments, tciAllocated,
                 tciBound, ttcip, last_iw, scan_tcip, tciHeld, tciBoundBy,
                 tciViaCache, tciAllocs>>
  /\ UNCHANGED nonTciVars

\* Lines 4129-4138: atomic_exchange on tciTab[iw].allocated, then the loop
\* conditions: found; or more entries to visit; or a whole pass without
\* success, which aborts (CHK_FALSE(allBound)) or yields and starts over.
findFreeTciTabEntry_xchg(t) ==
  /\ tciPc[t] = "scanXchg"
  /\ tciAllocated' = [tciAllocated EXCEPT ![scan_iw[t]] = TRUE]
  /\ IF ~tciAllocated[scan_iw[t]]
       THEN /\ scan_tcip' = [scan_tcip EXCEPT ![t] = scan_iw[t]]
            /\ tciPc' = [tciPc EXCEPT ![t] = "bind"]
       ELSE /\ UNCHANGED scan_tcip
            /\ tciPc' = [tciPc EXCEPT ![t] =
                 IF scan_iw[t] # last_iw[t] THEN "scanBound"
                 ELSE IF scan_allBound[t] THEN "abort"
                 ELSE "yield"]
  /\ UNCHANGED <<numWorkerTxCtxs, tciTabFixedAssignments, tciBound, ttcip,
                 last_iw, scan_iw, scan_allBound, tciHeld, tciBoundBy,
                 tciViaCache, tciAllocs, tciScanFirst>>
  /\ UNCHANGED nonTciVars

\* Line 4136: local_yield(), then the outer loop runs the scan again.
findFreeTciTabEntry_yield(t) ==
  /\ tciPc[t] = "yield"
  /\ tciPc' = [tciPc EXCEPT ![t] = "find"]
  /\ UNCHANGED <<numWorkerTxCtxs, tciTabFixedAssignments, tciAllocated,
                 tciBound, ttcip, last_iw, scan_iw, scan_allBound, scan_tcip,
                 tciHeld, tciBoundBy, tciViaCache, tciAllocs, tciScanFirst>>
  /\ UNCHANGED nonTciVars

\* tciAllocCommon, lines 4080-4087: _ttcip = the entry found; bind it for the
\* AM handler and for a fixed worker thread; return it.
tciAllocCommon_bind(t) ==
  /\ tciPc[t] = "bind"
  /\ ttcip' = [ttcip EXCEPT ![t] = scan_tcip[t]]
  /\ IF BindsEntry(t)
       THEN /\ tciBound' = [tciBound EXCEPT ![scan_tcip[t]] = TRUE]
            /\ tciBoundBy' = [tciBoundBy EXCEPT ![scan_tcip[t]] = t]
       ELSE UNCHANGED <<tciBound, tciBoundBy>>
  /\ tciHeld' = [tciHeld EXCEPT ![t] = scan_tcip[t]]
  /\ tciPc' = [tciPc EXCEPT ![t] = "held"]
  /\ UNCHANGED <<numWorkerTxCtxs, tciTabFixedAssignments, tciAllocated,
                 last_iw, scan_iw, scan_allBound, scan_tcip, tciViaCache,
                 tciAllocs, tciScanFirst>>
  /\ UNCHANGED nonTciVars

\* A tciFree that releases nothing.
ReleasesNoEntry(i) == FALSE

\* tciFree, line 4149: !tcip->bound.
ReleasesEntry(i) == ~tciBound[i]

\* tciFree, lines 4144-4153: only an entry that is not bound is released.
tciFree(t) ==
  /\ tciPc[t] = "held"
  /\ IF ReleasesEntry(tciHeld[t])
       THEN tciAllocated' = [tciAllocated EXCEPT ![tciHeld[t]] = FALSE]
       ELSE UNCHANGED tciAllocated
  /\ tciHeld' = [tciHeld EXCEPT ![t] = NULL]
  /\ tciPc' = [tciPc EXCEPT ![t] = "idle"]
  /\ UNCHANGED <<numWorkerTxCtxs, tciTabFixedAssignments, tciBound, ttcip,
                 last_iw, scan_iw, scan_allBound, scan_tcip, tciBoundBy,
                 tciViaCache, tciAllocs, tciScanFirst>>
  /\ UNCHANGED nonTciVars

TciNext ==
  \E t \in TciThreads :
    \/ tciAllocCommon_cached(t)
    \/ tciAllocCommon_realloc(t)
    \/ findFreeTciTabEntry_amHandler(t)
    \/ findFreeTciTabEntry_start(t)
    \/ findFreeTciTabEntry_readBound(t)
    \/ findFreeTciTabEntry_xchg(t)
    \/ findFreeTciTabEntry_yield(t)
    \/ tciAllocCommon_bind(t)
    \/ tciFree(t)

(***************************************************************************)
(* PART 2.  One task's communication, the fabric, and the AM handlers.     *)
(*                                                                         *)
(* The fabric is libfabric as the code relies on it.  An operation handed  *)
(* to a transmit context takes effect at its target at some later moment.  *)
(* With a delivery-complete provider the completion event of an operation  *)
(* follows its effect and nothing else is ordered but sends.  With a       *)
(* message-order provider (FI_ORDER_RAW | WAW | SAW on top of SAS) an      *)
(* operation takes effect after every earlier write of the same transmit   *)
(* context to the same target endpoint, and the completion event of a      *)
(* write, a send or a non-fetching atomic says only that the source buffer *)
(* may be reused (comm-ofi.c:4202-4216).  The completion of a read or a    *)
(* fetching atomic carries the value, so it always follows the effect.     *)
(***************************************************************************)

Nodes == {0, 1, 2}
chpl_nodeID == 0
Peers == Nodes \ {chpl_nodeID}
\* "reg" is memory mrGetKey() finds a remote key for, "unreg" is not.
Addrs == {"reg", "unreg"}
\* Targets in the initiator that are not data: the 'done' indicators, the
\* buffer a proxied GET lands in, the result of a fetching AMO.
LocalAddrs == {"amDone", "prvAmDone", "getBuf", "amoResult"}

\* How many communication calls the task makes.
MaxOps == 2

mrGetKey(a) == a = "reg"

NoReq == [op |-> "none", node |-> 0, pAmDone |-> "NULL", fast |-> FALSE,
          addr |-> "reg", val |-> 0, ofiOp |-> "none", rid |-> 0]

\* An operation in the hands of libfabric.  ep is the target endpoint: RMA
\* and atomics go to rxRmaAddr(), AM requests to rxMsgAddr().  waited says
\* that its issuer is in waitForTxnComplete() for it.
NetOp(id, src, ctx, node, kind, addr, val, ofiOp, waited, req) ==
  [id |-> id, src |-> src, ctx |-> ctx, node |-> node,
   ep |-> IF kind = "send" THEN "msg" ELSE "rma",
   kind |-> kind, addr |-> addr, val |-> val, ofiOp |-> ofiOp,
   waited |-> waited, applied |-> FALSE, req |-> req]

fi_write(id, src, ctx, node, addr, val, waited) ==
  NetOp(id, src, ctx, node, "write", addr, val, "none", waited, NoReq)
fi_read(id, src, ctx, node, addr, waited) ==
  NetOp(id, src, ctx, node, "read", addr, 0, "none", waited, NoReq)
fi_atomic(id, src, ctx, node, ofiOp, val, waited) ==
  NetOp(id, src, ctx, node, "atomic", "obj", val, ofiOp, waited, NoReq)
fi_send(id, src, ctx, node, req, waited) ==
  NetOp(id, src, ctx, node, "send", "req", 0, "none", waited, req)

\* The transmit context tciAlloc() gives a worker thread: its bound one (0)
\* or, when contexts are not bound, whichever is free: one that nothing
\* earlier is known to have used.
tciAlloc == IF tcipBound THEN 0 ELSE nextId
\* The AM handler's context is always bound to it.
amTcip == NULL - 1

IsWriteLike(o) ==
  o.kind = "write" \/ (o.kind = "atomic" /\ o.ofiOp # "read")

\* x, issued after y, is guaranteed to take effect after y.
Ordered(y, x) ==
  /\ y.src = x.src /\ y.ctx = x.ctx /\ y.node = x.node /\ y.ep = x.ep
  /\ \/ y.kind = "send"
     \/ ~haveDeliveryComplete /\ IsWriteLike(y)

CanApply(i) ==
  /\ ~net[i].applied
  /\ \A j \in 1 .. (i - 1) : net[j].applied \/ ~Ordered(net[j], net[i])

\* The completion event of o can be in its issuer's CQ.
CanComplete(o) ==
  \/ o.applied
  \/ /\ ~haveDeliveryComplete
     /\ o.kind \in {"write", "send"} \/ (o.kind = "atomic" /\ o.ofiOp = "write")

RemoveAt(s, i) == SubSeq(s, 1, i - 1) \o SubSeq(s, i + 1, Len(s))
IndexOfId(id) == CHOOSE i \in 1 .. Len(net) : net[i].id = id
NetOpOfId(id) == net[IndexOfId(id)]
\* waitForTxnComplete() has seen the completion of operation id.
Reaped(id) ==
  IF NetOpOfId(id).applied THEN RemoveAt(net, IndexOfId(id))
  ELSE [net EXCEPT ![IndexOfId(id)].waited = FALSE]

Min(S) == CHOOSE x \in S : \A y \in S : x <= y

\* doCpuAMO: the new value of the object and the value fetched.
doCpuAMO_new(old, ofiOp, val) == IF ofiOp = "read" THEN old ELSE val
IsFetching(ofiOp) == ofiOp # "write"

McmInit ==
  /\ haveDeliveryComplete \in BOOLEAN
  /\ tcipBound \in BOOLEAN
  /\ task = [pc |-> "idle", op |-> "none", node |-> 0, addr |-> "reg",
             size |-> "small", val |-> 0, ofiOp |-> "none", native |-> FALSE,
             blocking |-> TRUE, fast |-> FALSE, large |-> FALSE,
             opsDone |-> 0, tcip |-> NULL,
             hasPutBitmap |-> FALSE, putBitmap |-> {},
             amDonePending |-> FALSE, prvAmDone |-> 0, taskIsEnding |-> FALSE,
             amDone |-> 0, getBuf |-> 0, amoResult |-> 0, txnId |-> NULL,
             req |-> NoReq, ownTcip |-> FALSE, amRet |-> "idle",
             visAll |-> FALSE, visOwn |-> FALSE, visEnding |-> FALSE,
             visRet |-> "idle", yieldRet |-> "idle"]
  /\ net = << >>
  /\ nextId = 1
  /\ amq = [n \in Nodes |-> << >>]
  /\ moved = {}
  /\ mem = [n \in Nodes |-> [a \in Addrs |-> 0]]
  /\ obj = [n \in Nodes |-> 0]
  /\ hist = [lastPut |-> [n \in Nodes |-> [a \in Addrs |-> 0]],
             amoIssued |-> << >>, amoApplied |-> << >>,
             reqExec |-> {}, reqDone |-> << >>, reqNoDone |-> {},
             returned |-> {}]

\* The task's side of the fabric state stays as it is.
TaskOnly == UNCHANGED <<haveDeliveryComplete, tcipBound, net, nextId, amq,
                        moved, mem, obj, hist>>

CanCall == task.pc = "idle" /\ task.opsDone < MaxOps

\* chpl_comm_put(), lines 3795-3830.
chpl_comm_put(n, a, sz) ==
  /\ CanCall /\ ~task.taskIsEnding
  /\ n = chpl_nodeID => (a = "reg" /\ sz = "small")
  /\ task' = [task EXCEPT !.pc = "retire", !.op = "put", !.node = n,
                          !.addr = a, !.size = sz, !.val = task.opsDone + 1,
                          !.opsDone = @ + 1]
  /\ TaskOnly /\ UNCHANGED <<tciVars, barVars, cqVars, extVars>>

\* chpl_comm_get(), lines 3833-3868.
chpl_comm_get(n, a) ==
  /\ CanCall /\ ~task.taskIsEnding
  /\ n = chpl_nodeID => a = "reg"
  /\ task' = [task EXCEPT !.pc = "retire", !.op = "get", !.node = n,
                          !.addr = a, !.opsDone = @ + 1]
  /\ TaskOnly /\ UNCHANGED <<tciVars, barVars, cqVars, extVars>>

\* chpl_comm_execute_on(), _nb() and _fast(), lines 2780-2846, which call
\* amRequestExecOn(); large says argSize > sizeof(amRequest_t).
chpl_comm_execute_on(n, fast, blocking, large) ==
  /\ CanCall /\ ~task.taskIsEnding
  /\ ~(fast /\ ~blocking)
  /\ task' = [task EXCEPT !.pc = "retire", !.op = "execOn", !.node = n,
                          !.fast = fast, !.blocking = blocking,
                          !.large = large, !.opsDone = @ + 1]
  /\ TaskOnly /\ UNCHANGED <<tciVars, barVars, cqVars, extVars>>

\* doAMO(), lines 5515-5551; native says isAtomicValid(ofiType) holds and
\* mrGetKey() finds a key for the object.  After chpl_comm_task_end() the
\* only call left to a task is the non-fetching AMO of its _downEndCount().
doAMO(n, ofiOp, native) ==
  /\ CanCall
  /\ task.taskIsEnding => ofiOp = "write"
  /\ task' = [task EXCEPT !.pc = "retire", !.op = "amo", !.node = n,
                          !.ofiOp = ofiOp, !.native = native,
                          !.val = task.opsDone + 1, !.opsDone = @ + 1]
  /\ TaskOnly /\ UNCHANGED <<tciVars, barVars, cqVars, extVars>>

\* chpl_comm_impl_task_end(), lines 2656-2662.
chpl_comm_impl_task_end ==
  /\ CanCall /\ ~task.taskIsEnding
  /\ task' = [task EXCEPT !.pc = "retire", !.op = "end", !.opsDone = @ + 1]
  /\ TaskOnly /\ UNCHANGED <<tciVars, barVars, cqVars, extVars>>

\* retireDelayedAmDone(), lines 3218-3233, with amWaitForDone() on the
\* task-private 'done' indicator.
retireDelayedAmDone ==
  /\ task.pc = "retire"
  /\ IF task.amDonePending /\ task.prvAmDone = 0
       THEN task' = [task EXCEPT !.pc = "local_yield", !.yieldRet = "retire"]
       ELSE task' = [task EXCEPT !.amDonePending = FALSE,
                                 !.taskIsEnding = @ \/ task.op = "end",
                                 !.pc = task.op]
  /\ TaskOnly /\ UNCHANGED <<tciVars, barVars, cqVars, extVars>>

\* local_yield(), lines 5170-5200: chpl_task_yield().
local_yield ==
  /\ task.pc = "local_yield"
  /\ task' = [task EXCEPT !.pc = task.yieldRet]
  /\ TaskOnly /\ UNCHANGED <<tciVars, barVars, cqVars, extVars>>

\* A PUT that treats no node as the calling node.
PutNodeNeverOwn(n) == FALSE

\* chpl_comm_put(), line 3814: node == chpl_nodeID.
PutNodeIsOwn(n) == n = chpl_nodeID

\* chpl_comm_put() to the calling node, lines 3814-3818: memmove().
chpl_comm_put_self ==
  /\ task.pc = "put" /\ PutNodeIsOwn(task.node)
  /\ mem' = [mem EXCEPT ![task.node][task.addr] = task.val]
  /\ hist' = [hist EXCEPT !.lastPut[task.node][task.addr] = task.val]
  /\ task' = [task EXCEPT !.pc = "idle"]
  /\ UNCHANGED <<haveDeliveryComplete, tcipBound, net, nextId, amq, moved, obj>>
  /\ UNCHANGED <<tciVars, barVars, cqVars, extVars>>

\* An ofi_put() that never follows its write with a dummy GET.
PutNeverNeedsDummyGet == FALSE

\* ofi_put(), line 4240: outside delivery-complete mode the write is
\* followed by a dummy GET from the same node.
PutNeedsDummyGet == ~haveDeliveryComplete

\* An ofi_put() that injects whatever the size.
PutWaitsUnlessBound(sz) == haveDeliveryComplete \/ ~tcipBound

\* ofi_put(), lines 4218-4220: write and wait, or inject and remember.
PutWaits(sz) == haveDeliveryComplete \/ ~tcipBound \/ sz = "big"

\* ofi_put() with a remote key, lines 4199-4264.
ofi_put_rma ==
  /\ task.pc = "put" /\ ~PutNodeIsOwn(task.node) /\ mrGetKey(task.addr)
  /\ LET tcip == tciAlloc
         wr(w) == fi_write(nextId, chpl_nodeID, tcip, task.node, task.addr,
                           task.val, w)
         dummy == fi_read(nextId + 1, chpl_nodeID, tcip, task.node, "dummy", TRUE)
     IN  IF PutWaits(task.size)
           THEN /\ net' = IF PutNeedsDummyGet
                            THEN net \o <<wr(FALSE), dummy>>
                            ELSE Append(net, wr(TRUE))
                /\ nextId' = nextId + 2
                /\ task' = [task EXCEPT !.pc = "put_wait", !.tcip = tcip,
                              !.txnId = IF PutNeedsDummyGet THEN nextId + 1
                                        ELSE nextId]
           ELSE /\ net' = Append(net, wr(FALSE))
                /\ nextId' = nextId + 1
                /\ task' = [task EXCEPT !.pc = "idle", !.hasPutBitmap = TRUE,
                              !.putBitmap = @ \cup {task.node}]
  /\ hist' = [hist EXCEPT !.lastPut[task.node][task.addr] = task.val]
  /\ UNCHANGED <<haveDeliveryComplete, tcipBound, amq, moved, mem, obj>>
  /\ UNCHANGED <<tciVars, barVars, cqVars, extVars>>

\* ofi_put(), lines 4243-4263: waitForTxnComplete(), tciFree().
ofi_put_wait ==
  /\ task.pc = "put_wait"
  /\ CanComplete(NetOpOfId(task.txnId))
  /\ net' = Reaped(task.txnId)
  /\ task' = [task EXCEPT !.pc = "idle", !.tcip = NULL, !.txnId = NULL]
  /\ UNCHANGED <<haveDeliveryComplete, tcipBound, nextId, amq, moved, mem,
                 obj, hist>>
  /\ UNCHANGED <<tciVars, barVars, cqVars, extVars>>

\* ofi_put() without a remote key, lines 4265-4281: amRequestRMA(am_opGet).
ofi_put_am ==
  /\ task.pc = "put" /\ ~PutNodeIsOwn(task.node) /\ ~mrGetKey(task.addr)
  /\ task' = [task EXCEPT !.pc = "amRequestCommon", !.ownTcip = TRUE,
                !.amRet = "idle",
                !.req = [NoReq EXCEPT !.op = "Get", !.node = chpl_nodeID,
                           !.pAmDone = "amDone", !.addr = task.addr,
                           !.val = task.val]]
  /\ hist' = [hist EXCEPT !.lastPut[task.node][task.addr] = task.val]
  /\ UNCHANGED <<haveDeliveryComplete, tcipBound, net, nextId, amq, moved,
                 mem, obj>>
  /\ UNCHANGED <<tciVars, barVars, cqVars, extVars>>

\* chpl_comm_get() from the calling node, lines 3852-3856: memmove().
chpl_comm_get_self ==
  /\ task.pc = "get" /\ task.node = chpl_nodeID
  /\ task' = [task EXCEPT !.pc = "idle", !.getBuf = mem[task.node][task.addr]]
  /\ TaskOnly /\ UNCHANGED <<tciVars, barVars, cqVars, extVars>>

\* An ofi_get() that empties the bitmap.
GetSubsumesAll(b, n) == {}

\* ofi_get(), line 4549: bitmapClear(prvData->putBitmap, node).
GetSubsumes(b, n) == b \ {n}

\* ofi_get() with a remote key, lines 4520-4548.
ofi_get_rma ==
  /\ task.pc = "get" /\ task.node # chpl_nodeID /\ mrGetKey(task.addr)
  /\ net' = Append(net, fi_read(nextId, chpl_nodeID, tciAlloc, task.node,
                                task.addr, TRUE))
  /\ nextId' = nextId + 1
  /\ task' = [task EXCEPT !.pc = "get_wait", !.tcip = tciAlloc,
                !.txnId = nextId,
                !.putBitmap = IF ~haveDeliveryComplete /\ tcipBound
                                THEN GetSubsumes(@, task.node) ELSE @]
  /\ UNCHANGED <<haveDeliveryComplete, tcipBound, amq, moved, mem, obj, hist>>
  /\ UNCHANGED <<tciVars, barVars, cqVars, extVars>>

\* ofi_get(), lines 4550-4552: the read has completed, its data is here.
ofi_get_wait ==
  /\ task.pc = "get_wait"
  /\ CanComplete(NetOpOfId(task.txnId))
  /\ net' = Reaped(task.txnId)
  /\ task' = [task EXCEPT !.pc = "idle", !.tcip = NULL, !.txnId = NULL,
                !.getBuf = NetOpOfId(task.txnId).val]
  /\ UNCHANGED <<haveDeliveryComplete, tcipBound, nextId, amq, moved, mem,
                 obj, hist>>
  /\ UNCHANGED <<tciVars, barVars, cqVars, extVars>>

\* ofi_get() without a remote key, lines 4553-4568: amRequestRMA(am_opPut).
ofi_get_am ==
  /\ task.pc = "get" /\ task.node # chpl_nodeID /\ ~mrGetKey(task.addr)
  /\ task' = [task EXCEPT !.pc = "amRequestCommon", !.ownTcip = TRUE,
                !.amRet = "idle",
                !.req = [NoReq EXCEPT !.op = "Put", !.node = chpl_nodeID,
                           !.pAmDone = "amDone", !.addr = task.addr]]
  /\ TaskOnly /\ UNCHANGED <<tciVars, barVars, cqVars, extVars>>

\* amRequestExecOn(), lines 2849-2910.
amRequestExecOn ==
  /\ task.pc = "execOn"
  /\ task' = [task EXCEPT !.pc = "amRequestCommon", !.ownTcip = TRUE,
                !.amRet = "idle",
                !.req = [NoReq EXCEPT
                           !.op = IF task.large THEN "ExecOnLrg" ELSE "ExecOn",
                           !.node = chpl_nodeID, !.fast = task.fast,
                           !.pAmDone = IF task.blocking THEN "amDone" ELSE "NULL"]]
  /\ TaskOnly /\ UNCHANGED <<tciVars, barVars, cqVars, extVars>>

\* An amRequestCommon() that sends every request without waiting for PUTs.
ForcesNoPutsVisible(req) == FALSE

\* amRequestCommon(), lines 3111-3115: these requests wait for the task's
\* PUTs to every node to be visible.
ForcesAllPutsVisible(req) ==
  req.op \in {"ExecOn", "ExecOnLrg"} \/ (req.op = "AMO" /\ req.ofiOp # "read")

\* An amRequestCommon() that sends am_opGet and am_opPut without a wait.
ForcesNoNodeVisible(req) == FALSE

\* amRequestCommon(), lines 3116-3117: these requests wait for the task's
\* PUTs to the target node to be visible.
ForcesOneNodeVisible(req) == req.op \in {"Get", "Put"}

\* amRequestCommon(), lines 3033-3119: set up the 'done' indicator, get a
\* transmit context unless the caller passed one, then enforce the MCM.
amRequestCommon ==
  /\ task.pc = "amRequestCommon"
  /\ task' = [task EXCEPT
       !.amDone = IF task.req.pAmDone = "amDone" THEN 0 ELSE @,
       !.tcip = IF task.ownTcip THEN tciAlloc ELSE @,
       !.pc = IF ForcesAllPutsVisible(task.req) THEN "waitForPutsVisAllNodes"
              ELSE IF ForcesOneNodeVisible(task.req)
                     THEN "waitForPutsVisOneNode"
              ELSE "amSend",
       !.visAll = ForcesAllPutsVisible(task.req), !.visOwn = FALSE,
       !.visEnding = FALSE, !.visRet = "amSend"]
  /\ TaskOnly /\ UNCHANGED <<tciVars, barVars, cqVars, extVars>>

\* waitForPutsVisOneNode() and waitForPutsVisAllNodes() act on the PUT
\* bitmap only in message-order mode with a bound context.
PutsMayBeOutstanding == ~haveDeliveryComplete /\ tcipBound /\ task.hasPutBitmap

\* mcmReleaseOneNode(), lines 2586-2603: the dummy GET.
DummyGet(n) ==
  /\ net' = Append(net, fi_read(nextId, chpl_nodeID,
                                IF task.tcip = NULL THEN tciAlloc ELSE task.tcip,
                                n, "dummy", TRUE))
  /\ nextId' = nextId + 1

\* waitForPutsVisOneNode(), lines 5092-5114.
waitForPutsVisOneNode ==
  /\ task.pc = "waitForPutsVisOneNode"
  /\ IF PutsMayBeOutstanding /\ task.node \in task.putBitmap
       THEN /\ DummyGet(task.node)
            /\ task' = [task EXCEPT !.putBitmap = @ \ {task.node},
                          !.txnId = nextId, !.pc = "vis_wait"]
       ELSE /\ task' = [task EXCEPT !.pc = task.visRet]
            /\ UNCHANGED <<net, nextId>>
  /\ UNCHANGED <<haveDeliveryComplete, tcipBound, amq, moved, mem, obj, hist>>
  /\ UNCHANGED <<tciVars, barVars, cqVars, extVars>>

\* waitForPutsVisAllNodes(), lines 5117-5153, with mcmReleaseAllNodes(),
\* lines 2606-2637: one turn of BITMAP_FOREACH_SET, or the end of the loop.
waitForPutsVisAllNodes ==
  /\ task.pc = "waitForPutsVisAllNodes"
  /\ IF PutsMayBeOutstanding /\ task.putBitmap # {}
       THEN /\ DummyGet(Min(task.putBitmap))
            /\ task' = [task EXCEPT !.putBitmap = @ \ {Min(task.putBitmap)},
                          !.tcip = IF @ = NULL THEN tciAlloc ELSE @,
                          !.txnId = nextId, !.pc = "vis_wait"]
       ELSE /\ task' = [task EXCEPT
                 !.hasPutBitmap = @ /\ ~(PutsMayBeOutstanding /\ task.visEnding),
                 !.tcip = IF task.visOwn THEN NULL ELSE @,
                 !.pc = task.visRet]
            /\ UNCHANGED <<net, nextId>>
  /\ UNCHANGED <<haveDeliveryComplete, tcipBound, amq, moved, mem, obj, hist>>
  /\ UNCHANGED <<tciVars, barVars, cqVars, extVars>>

\* mcmReleaseOneNode(), line 2596: waitForTxnComplete() for the dummy GET.
mcmReleaseOneNode_wait ==
  /\ task.pc = "vis_wait"
  /\ CanComplete(NetOpOfId(task.txnId))
  /\ net' = Reaped(task.txnId)
  /\ task' = [task EXCEPT !.txnId = NULL,
                !.pc = IF task.visAll THEN "waitForPutsVisAllNodes"
                       ELSE task.visRet]
  /\ UNCHANGED <<haveDeliveryComplete, tcipBound, nextId, amq, moved, mem,
                 obj, hist>>
  /\ UNCHANGED <<tciVars, barVars, cqVars, extVars>>

\* What amRequestCommon() does once the request is on its way, lines
\* 3150-3166: tciFree() of its own context; then amWaitForDone() or return.
AfterSend(t) ==
  [t EXCEPT !.tcip = IF t.ownTcip THEN NULL ELSE @,
            !.txnId = NULL,
            !.pc = IF t.req.pAmDone = "amDone" THEN "amWaitForDone" ELSE t.amRet]

\* amRequestCommon(), lines 3121-3148: fi_inject() when there is no 'done'
\* indicator of its own to wait for and the request is small enough
\* (inj), fi_send() otherwise.
amRequestCommon_send(inj) ==
  /\ task.pc = "amSend"
  /\ inj => task.req.pAmDone # "amDone"
  /\ LET req == [task.req EXCEPT !.rid = nextId]
     IN  /\ net' = Append(net, fi_send(nextId, chpl_nodeID, task.tcip,
                                       task.node, req, ~inj))
         /\ task' = IF inj THEN AfterSend([task EXCEPT !.req = req])
                    ELSE [task EXCEPT !.req = req, !.txnId = nextId,
                                      !.pc = "amSend_wait"]
         /\ hist' = [hist EXCEPT
              !.amoIssued = IF req.op = "AMO"
                              THEN Append(@, [id |-> nextId, node |-> task.node,
                                              write |-> req.ofiOp # "read"])
                              ELSE @,
              !.reqNoDone = IF req.pAmDone = "NULL" THEN @ \cup {nextId} ELSE @]
  /\ nextId' = nextId + 1
  /\ UNCHANGED <<haveDeliveryComplete, tcipBound, amq, moved, mem, obj>>
  /\ UNCHANGED <<tciVars, barVars, cqVars, extVars>>

\* amRequestCommon(), line 3147: waitForTxnComplete() for the fi_send().
amRequestCommon_sendWait ==
  /\ task.pc = "amSend_wait"
  /\ CanComplete(NetOpOfId(task.txnId))
  /\ net' = Reaped(task.txnId)
  /\ task' = AfterSend(task)
  /\ UNCHANGED <<haveDeliveryComplete, tcipBound, nextId, amq, moved, mem,
                 obj, hist>>
  /\ UNCHANGED <<tciVars, barVars, cqVars, extVars>>

\* An amWaitForDone() that does not look at the indicator.
DoneAssumed(flag) == TRUE

\* amWaitForDone(), line 3178: the loop condition.
DoneIndicated(flag) == flag # 0

\* amWaitForDone(), lines 3170-3181, for amRequestCommon()'s own indicator.
amWaitForDone ==
  /\ task.pc = "amWaitForDone"
  /\ IF DoneIndicated(task.amDone)
       THEN /\ task' = [task EXCEPT !.pc = task.amRet]
            /\ hist' = [hist EXCEPT !.returned = @ \cup {task.req.rid}]
       ELSE /\ task' = [task EXCEPT !.pc = "local_yield",
                                    !.yieldRet = "amWaitForDone"]
            /\ UNCHANGED hist
  /\ UNCHANGED <<haveDeliveryComplete, tcipBound, net, nextId, amq, moved,
                 mem, obj>>
  /\ UNCHANGED <<tciVars, barVars, cqVars, extVars>>

\* doAMO(), lines 5549-5550, into ofi_amo(), lines 4748-4790: tciAlloc(),
\* then waitForPutsVisAllNodes() unless the operation is a read.
ofi_amo ==
  /\ task.pc = "amo" /\ task.native
  /\ task' = [task EXCEPT !.tcip = tciAlloc,
                !.pc = IF task.ofiOp # "read" THEN "waitForPutsVisAllNodes"
                       ELSE "amo_issue",
                !.visAll = TRUE, !.visOwn = FALSE, !.visEnding = FALSE,
                !.visRet = "amo_issue"]
  /\ TaskOnly /\ UNCHANGED <<tciVars, barVars, cqVars, extVars>>

\* ofi_amo(), lines 4792-4846: the fi_atomic(), fi_fetch_atomic() or
\* fi_compare_atomic() call, with a 'done' context.
ofi_amo_issue ==
  /\ task.pc = "amo_issue"
  /\ net' = Append(net, fi_atomic(nextId, chpl_nodeID, task.tcip, task.node,
                                  task.ofiOp, task.val, TRUE))
  /\ nextId' = nextId + 1
  /\ task' = [task EXCEPT !.pc = "amo_wait", !.txnId = nextId]
  /\ hist' = [hist EXCEPT !.amoIssued =
                Append(@, [id |-> nextId, node |-> task.node,
                           write |-> task.ofiOp # "read"])]
  /\ UNCHANGED <<haveDeliveryComplete, tcipBound, amq, moved, mem, obj>>
  /\ UNCHANGED <<tciVars, barVars, cqVars, extVars>>

\* ofi_amo(), lines 4848-4859: waitForTxnComplete(), tciFree().
ofi_amo_wait ==
  /\ task.pc = "amo_wait"
  /\ CanComplete(NetOpOfId(task.txnId))
  /\ net' = Reaped(task.txnId)
  /\ task' = [task EXCEPT !.pc = "idle", !.tcip = NULL, !.txnId = NULL,
                !.amoResult = IF IsFetching(task.ofiOp)
                                THEN NetOpOfId(task.txnId).val ELSE @]
  /\ UNCHANGED <<haveDeliveryComplete, tcipBound, nextId, amq, moved, mem,
                 obj, hist>>
  /\ UNCHANGED <<tciVars, barVars, cqVars, extVars>>

\* doAMO(), lines 5533-5540: the object is on this node and the network
\* cannot do the operation: waitForPutsVisAllNodes() unless it is a read.
doAMO_self ==
  /\ task.pc = "amo" /\ ~task.native /\ task.node = chpl_nodeID
  /\ task' = [task EXCEPT
                !.pc = IF task.ofiOp # "read" THEN "waitForPutsVisAllNodes"
                       ELSE "doCpuAMO",
                !.visAll = TRUE, !.visOwn = TRUE, !.visEnding = FALSE,
                !.visRet = "doCpuAMO"]
  /\ TaskOnly /\ UNCHANGED <<tciVars, barVars, cqVars, extVars>>

\* doAMO(), line 5541: doCpuAMO() on the local object.
doCpuAMO ==
  /\ task.pc = "doCpuAMO"
  /\ obj' = [obj EXCEPT ![task.node] = doCpuAMO_new(@, task.ofiOp, task.val)]
  /\ task' = [task EXCEPT !.pc = "idle",
                !.amoResult = IF IsFetching(task.ofiOp) THEN obj[task.node] ELSE @]
  /\ hist' = [hist EXCEPT
       !.amoIssued = Append(@, [id |-> nextId, node |-> task.node,
                                write |-> task.ofiOp # "read"]),
       !.amoApplied = Append(@, nextId)]
  /\ nextId' = nextId + 1
  /\ UNCHANGED <<haveDeliveryComplete, tcipBound, net, amq, moved, mem>>
  /\ UNCHANGED <<tciVars, barVars, cqVars, extVars>>

\* amRequestAMO(), lines 2928-2986: tciAlloc(); a non-fetching AMO is a
\* delayed-blocking AM (setUpDelayedAmDone(), lines 3184-3215) or, when the
\* task is ending, a nonblocking one; a fetching AMO is a blocking AM.  The
\* context goes to amRequestCommon().
amRequestAMO ==
  /\ task.pc = "amo" /\ ~task.native /\ task.node # chpl_nodeID
  /\ LET delayBlocking == ~IsFetching(task.ofiOp)
         delayed == delayBlocking /\ ~task.taskIsEnding
     IN task' = [task EXCEPT
          !.tcip = tciAlloc,
          !.prvAmDone = IF delayed THEN 0 ELSE @,
          !.amDonePending = IF delayed THEN TRUE ELSE @,
          !.req = [NoReq EXCEPT !.op = "AMO", !.node = chpl_nodeID,
                     !.pAmDone = IF delayed THEN "prvAmDone"
                                 ELSE IF delayBlocking THEN "NULL"
                                 ELSE "amDone",
                     !.ofiOp = task.ofiOp, !.val = task.val],
          !.ownTcip = FALSE, !.amRet = "amo_free",
          !.pc = "amRequestCommon"]
  /\ TaskOnly /\ UNCHANGED <<tciVars, barVars, cqVars, extVars>>

\* amRequestAMO(), line 2993: tciFree().
amRequestAMO_free ==
  /\ task.pc = "amo_free"
  /\ task' = [task EXCEPT !.pc = "idle", !.tcip = NULL]
  /\ TaskOnly /\ UNCHANGED <<tciVars, barVars, cqVars, extVars>>

\* chpl_comm_impl_task_end(), line 2661, after retireDelayedAmDone(true):
\* waitForPutsVisAllNodes(NULL, NULL, true).
chpl_comm_impl_task_end_puts ==
  /\ task.pc = "end"
  /\ task' = [task EXCEPT !.pc = "waitForPutsVisAllNodes", !.visAll = TRUE,
                !.visOwn = TRUE, !.visEnding = TRUE, !.visRet = "idle"]
  /\ TaskOnly /\ UNCHANGED <<tciVars, barVars, cqVars, extVars>>

\* libfabric carries out operation i of net at its target: a write lands
\* in memory (or in a 'done' indicator or result buffer of the initiator),
\* a read or fetch samples it, a send lands in the AM request buffer.
fabricDeliver(i) ==
  /\ i \in 1 .. Len(net)
  /\ CanApply(i)
  /\ LET o == net[i]
         v == IF o.kind = "read"
                THEN (IF o.addr \in Addrs THEN mem[o.node][o.addr] ELSE 0)
                ELSE IF o.kind = "atomic" THEN obj[o.node] ELSE o.val
     IN  /\ net' = IF o.waited
                     THEN [net EXCEPT ![i] = [o EXCEPT !.applied = TRUE, !.val = v]]
                     ELSE RemoveAt(net, i)
         /\ mem' = IF o.kind = "write" /\ o.addr \in Addrs
                     THEN [mem EXCEPT ![o.node][o.addr] = o.val] ELSE mem
         /\ task' = IF o.kind = "write" /\ o.addr \in LocalAddrs
                      THEN [task EXCEPT ![o.addr] = o.val] ELSE task
         /\ obj' = IF o.kind = "atomic"
                     THEN [obj EXCEPT ![o.node] = doCpuAMO_new(@, o.ofiOp, o.val)]
                     ELSE obj
         /\ hist' = IF o.kind = "atomic"
                      THEN [hist EXCEPT !.amoApplied = Append(@, o.id)] ELSE hist
         /\ amq' = IF o.kind = "send"
                     THEN [amq EXCEPT ![o.node] = Append(@, o.req)] ELSE amq
  /\ UNCHANGED <<haveDeliveryComplete, tcipBound, nextId, moved>>
  /\ UNCHANGED <<tciVars, barVars, cqVars, extVars>>

\* amSendDone(), lines 3672-3688: ofi_put_ll() with useInject: the value 1
\* goes to the initiator's indicator, no completion is waited for.
amSendDone(id, src, ctx, req) ==
  fi_write(id, src, ctx, req.node, req.pAmDone, 1, FALSE)

\* The AM handler of node n is in processRxAmReq() with a request to look at.
HasRequest(n) ==
  /\ amq[n] # << >>
  /\ \A m \in moved : ~(m.node = n /\ m.fn = "amHandleAMO")

\* processRxAmReq(), lines 3453-3456: a fast executeOn runs in the handler,
\* amWrapExecOnBody(), lines 3544-3553.
processRxAmReq_fast(n) ==
  /\ HasRequest(n)
  /\ Head(amq[n]).op = "ExecOn" /\ Head(amq[n]).fast
  /\ LET req == Head(amq[n])
     IN  /\ net' = IF req.pAmDone # "NULL"
                     THEN Append(net, amSendDone(nextId, n, amTcip, req)) ELSE net
         /\ hist' = [hist EXCEPT
              !.reqExec = @ \cup {req.rid},
              !.reqDone = IF req.pAmDone # "NULL" THEN Append(@, req.rid) ELSE @]
  /\ nextId' = nextId + 1
  /\ amq' = [amq EXCEPT ![n] = Tail(@)]
  /\ UNCHANGED <<haveDeliveryComplete, tcipBound, task, moved, mem, obj>>
  /\ UNCHANGED <<tciVars, barVars, cqVars, extVars>>

\* processRxAmReq(), lines 3457-3486: chpl_task_startMovedTask() for an
\* executeOn that is not fast (amHandleExecOn(), amHandleExecOnLrg()) and for
\* am_opGet and am_opPut.
processRxAmReq_task(n) ==
  /\ HasRequest(n)
  /\ \/ Head(amq[n]).op = "ExecOn" /\ ~Head(amq[n]).fast
     \/ Head(amq[n]).op \in {"ExecOnLrg", "Get", "Put"}
  /\ moved' = moved \cup {[node |-> n, fn |-> Head(amq[n]).op,
                           req |-> Head(amq[n]), txnId |-> NULL]}
  /\ amq' = [amq EXCEPT ![n] = Tail(@)]
  /\ UNCHANGED <<haveDeliveryComplete, tcipBound, task, net, nextId, mem,
                 obj, hist>>
  /\ UNCHANGED <<tciVars, barVars, cqVars, extVars>>

\* A handler whose ofi_put() of the result never waits.
AmoResultNeverWaits(ofiOp) == FALSE
\* amHandleAMO(), lines 3656-3658, into ofi_put(), lines 4218-4220, on the
\* handler's bound context: the PUT of a wanted result is waited for in
\* delivery-complete mode (the result is no larger than inject_size).
AmoResultWaits(ofiOp) == IsFetching(ofiOp) /\ haveDeliveryComplete

\* amHandleAMO(), lines 3646-3669, in the handler: doCpuAMO(); ofi_put() of
\* the result if one is wanted, which waits in delivery-complete mode and
\* injects on the handler's bound context otherwise; then amSendDone().
amHandleAMO(n) ==
  /\ HasRequest(n)
  /\ Head(amq[n]).op = "AMO"
  /\ LET req == Head(amq[n])
         res(w) == fi_write(nextId, n, amTcip, req.node, "amoResult", obj[n], w)
         done == amSendDone(nextId + 1, n, amTcip, req)
         waits == AmoResultWaits(req.ofiOp)
     IN  /\ obj' = [obj EXCEPT ![n] = doCpuAMO_new(@, req.ofiOp, req.val)]
         /\ net' = IF waits THEN Append(net, res(TRUE))
                   ELSE net \o (IF IsFetching(req.ofiOp) THEN <<res(FALSE)>> ELSE << >>)
                            \o (IF req.pAmDone # "NULL" THEN <<done>> ELSE << >>)
         /\ moved' = IF waits
                       THEN moved \cup {[node |-> n, fn |-> "amHandleAMO",
                                         req |-> req, txnId |-> nextId]}
                       ELSE moved
         /\ hist' = [hist EXCEPT
              !.amoApplied = Append(@, req.rid),
              !.reqExec = IF waits THEN @ ELSE @ \cup {req.rid},
              !.reqDone = IF ~waits /\ req.pAmDone # "NULL"
                            THEN Append(@, req.rid) ELSE @]
  /\ nextId' = nextId + 2
  /\ amq' = [amq EXCEPT ![n] = Tail(@)]
  /\ UNCHANGED <<haveDeliveryComplete, tcipBound, task, mem>>
  /\ UNCHANGED <<tciVars, barVars, cqVars, extVars>>

\* processRxAmReq(), lines 3492-3494: am_opFree.
processRxAmReq_free(n) ==
  /\ HasRequest(n)
  /\ Head(amq[n]).op = "Free"
  /\ amq' = [amq EXCEPT ![n] = Tail(@)]
  /\ hist' = [hist EXCEPT !.reqExec = @ \cup {Head(amq[n]).rid}]
  /\ UNCHANGED <<haveDeliveryComplete, tcipBound, task, net, nextId, moved,
                 mem, obj>>
  /\ UNCHANGED <<tciVars, barVars, cqVars, extVars>>

\* What a task or handler does after the work of request m.req: the 'done'
\* write if the request has an indicator, on context ctx.
Finish(m, ctx) ==
  /\ net' = (IF m.txnId # NULL THEN Reaped(m.txnId) ELSE net)
            \o (IF m.req.pAmDone # "NULL"
                  THEN <<amSendDone(nextId, m.node, ctx, m.req)>> ELSE << >>)
  /\ nextId' = nextId + 1
  /\ hist' = [hist EXCEPT
       !.reqExec = @ \cup {m.req.rid},
       !.reqDone = IF m.req.pAmDone # "NULL" THEN Append(@, m.req.rid) ELSE @]
  /\ moved' = moved \ {m}

\* amHandleAMO(), lines 3656-3668, in delivery-complete mode: ofi_put() of
\* the result has completed; amSendDone().
amHandleAMO_done(m) ==
  /\ m \in moved /\ m.fn = "amHandleAMO"
  /\ CanComplete(NetOpOfId(m.txnId))
  /\ Finish(m, amTcip)
  /\ UNCHANGED <<haveDeliveryComplete, tcipBound, task, amq, mem, obj>>
  /\ UNCHANGED <<tciVars, barVars, cqVars, extVars>>

\* amWrapExecOnBody(), lines 3544-3553, as a task: the body, then the 'done'.
amWrapExecOnBody(m) ==
  /\ m \in moved /\ m.fn = "ExecOn"
  /\ Finish(m, tciAlloc)
  /\ UNCHANGED <<haveDeliveryComplete, tcipBound, task, amq, mem, obj>>
  /\ UNCHANGED <<tciVars, barVars, cqVars, extVars>>

\* amWrapExecOnLrgBody(), lines 3566-3614: ofi_get() of the payload from the
\* initiator, amRequestFree() back to it for a nonblocking request, the
\* body, the 'done' for a blocking one.
amWrapExecOnLrgBody(m) ==
  /\ m \in moved /\ m.fn = "ExecOnLrg"
  /\ net' = Append(net,
       IF m.req.pAmDone = "NULL"
         THEN fi_send(nextId, m.node, tciAlloc, m.req.node,
                      [NoReq EXCEPT !.op = "Free", !.node = m.node,
                                    !.rid = nextId], FALSE)
         ELSE amSendDone(nextId, m.node, tciAlloc, m.req))
  /\ nextId' = nextId + 1
  /\ hist' = [hist EXCEPT
       !.reqExec = @ \cup {m.req.rid},
       !.reqNoDone = IF m.req.pAmDone = "NULL" THEN @ \cup {nextId} ELSE @,
       !.reqDone = IF m.req.pAmDone # "NULL" THEN Append(@, m.req.rid) ELSE @]
  /\ moved' = moved \ {m}
  /\ UNCHANGED <<haveDeliveryComplete, tcipBound, task, amq, mem, obj>>
  /\ UNCHANGED <<tciVars, barVars, cqVars, extVars>>

\* amWrapGet(), lines 3617-3626: ofi_get() from the initiator's buffer into
\* the target address, then amSendDone().
amGetsNothing(m) == 0

\* What the ofi_get() of amWrapGet() reads: the initiator's source (or its
\* bounce copy), which the waiting initiator leaves alone.
amGetSource(m) == m.req.val

amWrapGet(m) ==
  /\ m \in moved /\ m.fn = "Get"
  /\ mem' = [mem EXCEPT ![m.node][m.req.addr] = amGetSource(m)]
  /\ Finish(m, tciAlloc)
  /\ UNCHANGED <<haveDeliveryComplete, tcipBound, task, amq, obj>>
  /\ UNCHANGED <<tciVars, barVars, cqVars, extVars>>

\* amWrapPut(), lines 3629-3634: ofi_put() of the target's data into the
\* initiator's buffer, by the discipline of ofi_put(), lines 4218-4264.
amWrapPut(m, sz) ==
  /\ m \in moved /\ m.fn = "Put" /\ m.txnId = NULL
  /\ LET wr(w) == fi_write(nextId, m.node, tciAlloc, m.req.node, "getBuf",
                           mem[m.node][m.req.addr], w)
         dummy == fi_read(nextId + 1, m.node, tciAlloc, m.req.node, "dummy", TRUE)
     IN  IF PutWaits(sz)
           THEN /\ net' = IF PutNeedsDummyGet THEN net \o <<wr(FALSE), dummy>>
                          ELSE Append(net, wr(TRUE))
                /\ moved' = (moved \ {m}) \cup
                     {[m EXCEPT !.txnId = IF PutNeedsDummyGet THEN nextId + 1
                                          ELSE nextId]}
                /\ UNCHANGED hist
           ELSE /\ net' = net \o <<wr(FALSE), amSendDone(nextId + 1, m.node,
                                                        tciAlloc, m.req)>>
                /\ moved' = moved \ {m}
                /\ hist' = [hist EXCEPT !.reqExec = @ \cup {m.req.rid},
                                        !.reqDone = Append(@, m.req.rid)]
  /\ nextId' = nextId + 2
  /\ UNCHANGED <<haveDeliveryComplete, tcipBound, task, amq, mem, obj>>
  /\ UNCHANGED <<tciVars, barVars, cqVars, extVars>>

\* amWrapPut(), lines 3636-3642: ofi_put() has returned; amSendDone().
amWrapPut_done(m) ==
  /\ m \in moved /\ m.fn = "Put" /\ m.txnId # NULL
  /\ CanComplete(NetOpOfId(m.txnId))
  /\ Finish(m, tciAlloc)
  /\ UNCHANGED <<haveDeliveryComplete, tcipBound, task, amq, mem, obj>>
  /\ UNCHANGED <<tciVars, barVars, cqVars, extVars>>

Sizes == {"small", "big"}
AmoOps == {"read", "write", "xchg"}

McmNext ==
  \/ \E n \in Nodes : \E a \in Addrs : \E sz \in Sizes : chpl_comm_put(n, a, sz)
  \/ \E n \in Nodes : \E a \in Addrs : chpl_comm_get(n, a)
  \/ \E n \in Peers : \E f \in BOOLEAN : \E b \in BOOLEAN : \E l \in BOOLEAN :
        chpl_comm_execute_on(n, f, b, l)
  \/ \E n \in Nodes : \E o \in AmoOps : \E v \in BOOLEAN : doAMO(n, o, v)
  \/ chpl_comm_impl_task_end
  \/ retireDelayedAmDone
  \/ local_yield
  \/ chpl_comm_put_self
  \/ ofi_put_rma
  \/ ofi_put_wait
  \/ ofi_put_am
  \/ chpl_comm_get_self
  \/ ofi_get_rma
  \/ ofi_get_wait
  \/ ofi_get_am
  \/ amRequestExecOn
  \/ amRequestCommon
  \/ waitForPutsVisOneNode
  \/ waitForPutsVisAllNodes
  \/ mcmReleaseOneNode_wait
  \/ \E inj \in BOOLEAN : amRequestCommon_send(inj)
  \/ amRequestCommon_sendWait
  \/ amWaitForDone
  \/ ofi_amo
  \/ ofi_amo_issue
  \/ ofi_amo_wait
  \/ doAMO_self
  \/ doCpuAMO
  \/ amRequestAMO
  \/ amRequestAMO_free
  \/ chpl_comm_impl_task_end_puts
  \/ \E i \in 1 .. Len(net) : fabricDeliver(i)
  \/ \E n \in Nodes : processRxAmReq_fast(n)
  \/ \E n \in Nodes : processRxAmReq_task(n)
  \/ \E n \in Nodes : amHandleAMO(n)
  \/ \E n \in Nodes : processRxAmReq_free(n)
  \/ \E m \in moved : amHandleAMO_done(m)
  \/ \E m \in moved : amWrapExecOnBody(m)
  \/ \E m \in moved : amWrapExecOnLrgBody(m)
  \/ \E m \in moved : amWrapGet(m)
  \/ \E m \in moved : \E sz \in Sizes : amWrapPut(m, sz)
  \/ \E m \in moved : amWrapPut_done(m)

(***************************************************************************)
(* PART 3.  The tree barrier and the shutdown handshake.                   *)
(*                                                                         *)
(* A barrier PUT is an ofi_put() of a 1 into a flag of another node.  It   *)
(* is in barNet from the moment it is issued until the fabric writes the   *)
(* flag; the fabric may write the flags in any order.  ofi_put() returns   *)
(* at once when it injects (message-order mode, bound context) and after   *)
(* the flag is written otherwise.  A Shutdown request is sent without a    *)
(* 'done' indicator and its sender does not wait for its arrival.          *)
(***************************************************************************)

\* The number of nodes of the job.
chpl_numNodes == 4
\* The fan-out of the barrier tree: 64 in the source, scaled here so that a
\* job of chpl_numNodes nodes has inner nodes below the root.
BAR_TREE_NUM_CHILDREN == 2
\* How many barriers every node goes through, the last one inside
\* chpl_comm_pre_task_exit().
MaxBarriers == 2

BarNodes == 0 .. (chpl_numNodes - 1)

\* init_bar(), lines 5877-5892.
bar_childFirst(n) == BAR_TREE_NUM_CHILDREN * n + 1
bar_numChildren(n) ==
  IF bar_childFirst(n) >= chpl_numNodes THEN 0
  ELSE IF bar_childFirst(n) + BAR_TREE_NUM_CHILDREN >= chpl_numNodes
         THEN chpl_numNodes - bar_childFirst(n)
  ELSE BAR_TREE_NUM_CHILDREN
bar_parent(n) == IF n = 0 THEN 0 ELSE (n - 1) \div BAR_TREE_NUM_CHILDREN
\* chpl_comm_barrier(), line 5942.
parChild(n) == (n - 1) % BAR_TREE_NUM_CHILDREN

BarInit ==
  /\ barOob \in BOOLEAN
  /\ barPc = [n \in BarNodes |-> "run"]
  /\ bar_i = [n \in BarNodes |-> 0]
  /\ child_notify = [n \in BarNodes |->
                       [i \in 0 .. (BAR_TREE_NUM_CHILDREN - 1) |-> 0]]
  /\ parent_release = [n \in BarNodes |-> 0]
  /\ barNet = {}
  /\ barEntered = [n \in BarNodes |-> 0]
  /\ barReturned = [n \in BarNodes |-> 0]
  /\ exiting = [n \in BarNodes |-> FALSE]
  /\ shutdownSent = {}
  /\ shutdownSignal = [n \in BarNodes |-> FALSE]
  /\ amHandlersExit = [n \in BarNodes |-> FALSE]
  /\ numAmHandlersActive = [n \in BarNodes |-> numAmHandlers]

BarPut(kind, src, dst, idx) ==
  [kind |-> kind, src |-> src, dst |-> dst, idx |-> idx]

\* What no barrier action touches.
BarFrame == UNCHANGED <<tciVars, mcmVars, cqVars, extVars, barOob>>

\* chpl_comm_barrier(), lines 5895-5921: entry; the out-of-band barrier for
\* the thread that inited the comm layer or with no AM handler running.
chpl_comm_barrier(n) ==
  /\ \/ barPc[n] = "run" /\ barEntered[n] < MaxBarriers - 1
     \/ barPc[n] = "exit_barrier"
  /\ barEntered' = [barEntered EXCEPT ![n] = @ + 1]
  /\ barPc' = [barPc EXCEPT ![n] =
                 IF barOob \/ numAmHandlersActive[n] = 0 THEN "oob" ELSE "vis"]
  /\ UNCHANGED <<bar_i, child_notify, parent_release, barNet, barReturned,
                 exiting, shutdownSent, shutdownSignal, amHandlersExit,
                 numAmHandlersActive>>
  /\ BarFrame

\* Where chpl_comm_barrier() returns to.
BarReturn(n) == IF exiting[n] THEN "fini" ELSE "run"

\* chpl_comm_ofi_oob_barrier(): every node of the job is in the same barrier.
chpl_comm_ofi_oob_barrier(n) ==
  /\ barPc[n] = "oob"
  /\ \A m \in BarNodes : barEntered[m] >= barEntered[n]
  /\ barReturned' = [barReturned EXCEPT ![n] = @ + 1]
  /\ barPc' = [barPc EXCEPT ![n] = BarReturn(n)]
  /\ UNCHANGED <<bar_i, child_notify, parent_release, barNet, barEntered,
                 exiting, shutdownSent, shutdownSignal, amHandlersExit,
                 numAmHandlersActive>>
  /\ BarFrame

\* chpl_comm_barrier(), lines 5928-5929: retireDelayedAmDone() and
\* waitForPutsVisAllNodes(): the dummy GETs return once the PUTs this node
\* injected earlier are in their targets.
bar_waitForPutsVis(n) ==
  /\ barPc[n] = "vis"
  /\ (~haveDeliveryComplete /\ tcipBound)
       => \A p \in barNet : ~(p.src = n /\ p.kind # "shutdown")
  /\ barPc' = [barPc EXCEPT ![n] = "children"]
  /\ bar_i' = [bar_i EXCEPT ![n] = 0]
  /\ UNCHANGED <<child_notify, parent_release, barNet, barEntered,
                 barReturned, exiting, shutdownSent, shutdownSignal,
                 amHandlersExit, numAmHandlersActive>>
  /\ BarFrame

\* A chpl_comm_barrier() that does not wait for its children.
ChildNotWaitedFor(n, i) == TRUE

\* chpl_comm_barrier(), line 5936: the loop leaves a child's flag when it
\* is not zero.
ChildNotified(n, i) == child_notify[n][i] # 0

\* chpl_comm_barrier(), lines 5935-5939: wait for each child's notify flag.
bar_waitChildren(n) ==
  /\ barPc[n] = "children"
  /\ IF bar_i[n] < bar_numChildren(n)
       THEN /\ ChildNotified(n, bar_i[n])
            /\ bar_i' = [bar_i EXCEPT ![n] = @ + 1]
            /\ UNCHANGED barPc
       ELSE /\ barPc' = [barPc EXCEPT ![n] = "notify"]
            /\ UNCHANGED bar_i
  /\ UNCHANGED <<child_notify, parent_release, barNet, barEntered,
                 barReturned, exiting, shutdownSent, shutdownSignal,
                 amHandlersExit, numAmHandlersActive>>
  /\ BarFrame

\* chpl_comm_barrier(), lines 5942-5950: a node other than 0 PUTs a 1 into
\* its slot of its parent's child_notify[].
bar_notifyParent(n) ==
  /\ barPc[n] = "notify"
  /\ IF n # 0
       THEN /\ barNet' = barNet \cup {BarPut("notify", n, bar_parent(n), parChild(n))}
            /\ barPc' = [barPc EXCEPT ![n] =
                 IF PutWaits("small") THEN "notify_wait" ELSE "wait_release"]
            /\ UNCHANGED bar_i
       ELSE /\ barPc' = [barPc EXCEPT ![n] = "clear"]
            /\ bar_i' = [bar_i EXCEPT ![n] = 0]
            /\ UNCHANGED barNet
  /\ UNCHANGED <<child_notify, parent_release, barEntered, barReturned,
                 exiting, shutdownSent, shutdownSignal, amHandlersExit,
                 numAmHandlersActive>>
  /\ BarFrame

\* ofi_put() of the notify flag, lines 4243-4244: waitForTxnComplete().
bar_notifyParent_wait(n) ==
  /\ barPc[n] = "notify_wait"
  /\ BarPut("notify", n, bar_parent(n), parChild(n)) \notin barNet
  /\ barPc' = [barPc EXCEPT ![n] = "wait_release"]
  /\ UNCHANGED <<bar_i, child_notify, parent_release, barNet, barEntered,
                 barReturned, exiting, shutdownSent, shutdownSignal,
                 amHandlersExit, numAmHandlersActive>>
  /\ BarFrame

\* chpl_comm_barrier(), lines 5955-5957: wait for the parent's release.
bar_waitRelease(n) ==
  /\ barPc[n] = "wait_release"
  /\ parent_release[n] # 0
  /\ barPc' = [barPc EXCEPT ![n] = "clear"]
  /\ bar_i' = [bar_i EXCEPT ![n] = 0]
  /\ UNCHANGED <<child_notify, parent_release, barNet, barEntered,
                 barReturned, exiting, shutdownSent, shutdownSignal,
                 amHandlersExit, numAmHandlersActive>>
  /\ BarFrame

\* chpl_comm_barrier(), lines 5963-5965: clear the flags, one store a step.
bar_clearFlags(n) ==
  /\ barPc[n] = "clear"
  /\ IF bar_i[n] < bar_numChildren(n)
       THEN /\ child_notify' = [child_notify EXCEPT ![n][bar_i[n]] = 0]
            /\ bar_i' = [bar_i EXCEPT ![n] = @ + 1]
            /\ UNCHANGED <<parent_release, barPc>>
       ELSE /\ parent_release' = [parent_release EXCEPT ![n] = 0]
            /\ bar_i' = [bar_i EXCEPT ![n] = 0]
            /\ barPc' = [barPc EXCEPT ![n] = "release"]
            /\ UNCHANGED child_notify
  /\ UNCHANGED <<barNet, barEntered, barReturned, exiting, shutdownSent,
                 shutdownSignal, amHandlersExit, numAmHandlersActive>>
  /\ BarFrame

\* A chpl_comm_barrier() that releases its first child every time.
ReleasesFirstChild(n, i) == bar_childFirst(n)

\* chpl_comm_barrier(), line 5972: child = bar_childFirst + i.
ReleasedChild(n, i) == bar_childFirst(n) + i

\* chpl_comm_barrier(), lines 5970-5977: PUT a 1 into each child's
\* parent_release; after the last one the barrier returns.
bar_releaseChildren(n) ==
  /\ barPc[n] = "release"
  /\ IF bar_i[n] < bar_numChildren(n)
       THEN /\ barNet' = barNet \cup
                 {BarPut("release", n, ReleasedChild(n, bar_i[n]), 0)}
            /\ IF PutWaits("small")
                 THEN /\ barPc' = [barPc EXCEPT ![n] = "release_wait"]
                      /\ UNCHANGED bar_i
                 ELSE /\ bar_i' = [bar_i EXCEPT ![n] = @ + 1]
                      /\ UNCHANGED barPc
            /\ UNCHANGED barReturned
       ELSE /\ barReturned' = [barReturned EXCEPT ![n] = @ + 1]
            /\ barPc' = [barPc EXCEPT ![n] = BarReturn(n)]
            /\ UNCHANGED <<barNet, bar_i>>
  /\ UNCHANGED <<child_notify, parent_release, barEntered, exiting,
                 shutdownSent, shutdownSignal, amHandlersExit,
                 numAmHandlersActive>>
  /\ BarFrame

\* ofi_put() of a release flag, lines 4243-4244: waitForTxnComplete().
bar_releaseChildren_wait(n) ==
  /\ barPc[n] = "release_wait"
  /\ BarPut("release", n, ReleasedChild(n, bar_i[n]), 0) \notin barNet
  /\ bar_i' = [bar_i EXCEPT ![n] = @ + 1]
  /\ barPc' = [barPc EXCEPT ![n] = "release"]
  /\ UNCHANGED <<child_notify, parent_release, barNet, barEntered,
                 barReturned, exiting, shutdownSent, shutdownSignal,
                 amHandlersExit, numAmHandlersActive>>
  /\ BarFrame

\* The fabric writes the flag a barrier PUT is for.
barDeliver(p) ==
  /\ p \in barNet /\ p.kind # "shutdown"
  /\ barNet' = barNet \ {p}
  /\ IF p.kind = "notify"
       THEN /\ child_notify' = [child_notify EXCEPT ![p.dst][p.idx] = 1]
            /\ UNCHANGED parent_release
       ELSE /\ parent_release' = [parent_release EXCEPT ![p.dst] = 1]
            /\ UNCHANGED child_notify
  /\ UNCHANGED <<barPc, bar_i, barEntered, barReturned, exiting, shutdownSent,
                 shutdownSignal, amHandlersExit, numAmHandlersActive>>
  /\ BarFrame

\* A chpl_comm_pre_task_exit() in which no node waits for Shutdown.
EveryNodeSendsShutdown(n) == TRUE

\* chpl_comm_pre_task_exit(), line 2202: node 0 sends the Shutdown
\* requests, every other node waits for one.
SendsShutdown(n) == n = 0

\* chpl_comm_pre_task_exit(all), lines 2198-2203.
chpl_comm_pre_task_exit(n) ==
  /\ barPc[n] = "run" /\ barEntered[n] = MaxBarriers - 1 /\ ~exiting[n]
  /\ exiting' = [exiting EXCEPT ![n] = TRUE]
  /\ barPc' = [barPc EXCEPT ![n] =
                 IF SendsShutdown(n) THEN "send_shutdown" ELSE "wait_shutdown"]
  /\ bar_i' = [bar_i EXCEPT ![n] = 1]
  /\ UNCHANGED <<child_notify, parent_release, barNet, barEntered,
                 barReturned, shutdownSent, shutdownSignal, amHandlersExit,
                 numAmHandlersActive>>
  /\ BarFrame

\* chpl_comm_pre_task_exit(), lines 2203-2205, with amRequestShutdown(),
\* lines 3017-3024: one nonblocking am_opShutdown request per other node.
amRequestShutdown(n) ==
  /\ barPc[n] = "send_shutdown"
  /\ IF bar_i[n] < chpl_numNodes
       THEN /\ barNet' = barNet \cup {BarPut("shutdown", n, bar_i[n], 0)}
            /\ shutdownSent' = shutdownSent \cup {bar_i[n]}
            /\ bar_i' = [bar_i EXCEPT ![n] = @ + 1]
            /\ UNCHANGED barPc
       ELSE /\ barPc' = [barPc EXCEPT ![n] = "exit_barrier"]
            /\ UNCHANGED <<barNet, shutdownSent, bar_i>>
  /\ UNCHANGED <<child_notify, parent_release, barEntered, barReturned,
                 exiting, shutdownSignal, amHandlersExit, numAmHandlersActive>>
  /\ BarFrame

\* chpl_wait_for_shutdown(), called at line 2207: returns once
\* chpl_signal_shutdown() has been called on this node.
chpl_wait_for_shutdown(n) ==
  /\ barPc[n] = "wait_shutdown"
  /\ shutdownSignal[n]
  /\ barPc' = [barPc EXCEPT ![n] = "exit_barrier"]
  /\ UNCHANGED <<bar_i, child_notify, parent_release, barNet, barEntered,
                 barReturned, exiting, shutdownSent, shutdownSignal,
                 amHandlersExit, numAmHandlersActive>>
  /\ BarFrame

\* amHandler(), line 3325, and processRxAmReq(), lines 3506-3508: a running
\* handler receives am_opShutdown and calls chpl_signal_shutdown().
processRxAmReq_shutdown(p) ==
  /\ p \in barNet /\ p.kind = "shutdown"
  /\ numAmHandlersActive[p.dst] > 0 /\ ~amHandlersExit[p.dst]
  /\ barNet' = barNet \ {p}
  /\ shutdownSignal' = [shutdownSignal EXCEPT ![p.dst] = TRUE]
  /\ UNCHANGED <<barPc, bar_i, child_notify, parent_release, barEntered,
                 barReturned, exiting, shutdownSent, amHandlersExit,
                 numAmHandlersActive>>
  /\ BarFrame

\* fini_amHandling(), lines 3286-3294: tell the handler to exit.
fini_amHandling(n) ==
  /\ barPc[n] = "fini"
  /\ amHandlersExit' = [amHandlersExit EXCEPT ![n] = TRUE]
  /\ barPc' = [barPc EXCEPT ![n] = "fini_wait"]
  /\ UNCHANGED <<bar_i, child_notify, parent_release, barNet, barEntered,
                 barReturned, exiting, shutdownSent, shutdownSignal,
                 numAmHandlersActive>>
  /\ BarFrame

\* amHandler(), lines 3325 and 3386-3392: the loop ends when amHandlersExit
\* is set; the handler counts itself out and signals.
amHandler_exit(n) ==
  /\ amHandlersExit[n] /\ numAmHandlersActive[n] > 0
  /\ numAmHandlersActive' = [numAmHandlersActive EXCEPT ![n] = @ - 1]
  /\ UNCHANGED <<barPc, bar_i, child_notify, parent_release, barNet,
                 barEntered, barReturned, exiting, shutdownSent,
                 shutdownSignal, amHandlersExit>>
  /\ BarFrame

\* fini_amHandling(), lines 3296-3300: the handler has signalled.
fini_amHandling_done(n) ==
  /\ barPc[n] = "fini_wait"
  /\ numAmHandlersActive[n] = 0
  /\ barPc' = [barPc EXCEPT ![n] = "exited"]
  /\ UNCHANGED <<bar_i, child_notify, parent_release, barNet, barEntered,
                 barReturned, exiting, shutdownSent, shutdownSignal,
                 amHandlersExit, numAmHandlersActive>>
  /\ BarFrame

BarNext ==
  \/ \E n \in BarNodes : chpl_comm_barrier(n)
  \/ \E n \in BarNodes : chpl_comm_ofi_oob_barrier(n)
  \/ \E n \in BarNodes : bar_waitForPutsVis(n)
  \/ \E n \in BarNodes : bar_waitChildren(n)
  \/ \E n \in BarNodes : bar_notifyParent(n)
  \/ \E n \in BarNodes : bar_notifyParent_wait(n)
  \/ \E n \in BarNodes : bar_waitRelease(n)
  \/ \E n \in BarNodes : bar_clearFlags(n)
  \/ \E n \in BarNodes : bar_releaseChildren(n)
  \/ \E n \in BarNodes : bar_releaseChildren_wait(n)
  \/ \E p \in barNet : barDeliver(p)
  \/ \E n \in BarNodes : chpl_comm_pre_task_exit(n)
  \/ \E n \in BarNodes : amRequestShutdown(n)
  \/ \E n \in BarNodes : chpl_wait_for_shutdown(n)
  \/ \E p \in barNet : processRxAmReq_shutdown(p)
  \/ \E n \in BarNodes : fini_amHandling(n)
  \/ \E n \in BarNodes : amHandler_exit(n)
  \/ \E n \in BarNodes : fini_amHandling_done(n)

(***************************************************************************)
(* PART 4.  Completion-queue accounting of one worker transmit context.    *)
(*                                                                         *)
(* One thread at a time holds the context and makes calls on it, one after *)
(* the other.  An operation handed to libfabric with a context pointer is  *)
(* in flight until the provider queues its completion event on the         *)
(* context's CQ; checkTxCmplsCQ() reads the queued events.  The provider   *)
(* queues the events of the operations in flight in any order and after    *)
(* any delay.  The domain is opened with FI_RM_ENABLED, so the provider    *)
(* answers -FI_EAGAIN to an operation its CQ has no room for; the size     *)
(* handed to fi_cq_open() is the least depth the provider may give the CQ. *)
(***************************************************************************)

\* MAX_TXNS_IN_FLIGHT, the longest chain of unordered operations: 64 in the
\* source, scaled here.
MAX_TXNS_IN_FLIGHT == 2
\* What init_ofiEp() asks for on top of MAX_TXNS_IN_FLIGHT: 100 in the
\* source, scaled here.
CqHeadroom == 1
\* How many entries more than it was asked for the provider may give a CQ.
MaxCqExtra == 2
\* How many calls the thread makes on the context.
MaxCqOps == 4

\* init_ofiEp(), lines 1646-1651.
txCQLen == CqHeadroom + MAX_TXNS_IN_FLIGHT
\* Lines 714-716.
MAX_CHAINED_AMO_NF_LEN == MAX_TXNS_IN_FLIGHT
MAX_CHAINED_PUT_LEN == MAX_TXNS_IN_FLIGHT
MAX_CHAINED_GET_LEN == MAX_TXNS_IN_FLIGHT

CqInit ==
  /\ cqSize \in txCQLen .. (txCQLen + MaxCqExtra)
  /\ numTxnsOut = 0
  /\ numTxnsSent = 0
  /\ cqPc = "idle"
  /\ cqIssueId = 0
  /\ cqIssueDone = 0
  /\ cqAfter = "return"
  /\ cqLast = FALSE
  /\ cqNodes = 0
  /\ cqFlightId = 0
  /\ cqFlightDone = 0
  /\ cqEvId = 0
  /\ cqEvDone = 0
  /\ txnDone = FALSE
  /\ cqOps = 0

\* What no action of this part touches.
CqFrame == UNCHANGED <<tciVars, mcmVars, barVars, extVars, cqSize>>

\* The CQ entries the provider has committed: operations in flight and
\* events not yet read.
CqCommitted == cqFlightId + cqFlightDone + cqEvId + cqEvDone

\* The back-pressure test of the batch paths, "v_len > txCQLen -
\* tcip->numTxnsOut": numTxnsOut is a uint64_t, so the difference is taken
\* modulo 2^64 and is no less than any v_len once numTxnsOut exceeds
\* txCQLen.
BatchMustWait(v_len, out) ==
  /\ out <= txCQLen
  /\ v_len > txCQLen - out

\* checkTxCmplsCQ(), lines 4994-5013: read up to txCQLen events, take them
\* off numTxnsOut, set the flag of a txnTrkDone event.  rd is the number of
\* txnTrkDone events among those read.
DoneReads ==
  IF cqEvId + cqEvDone <= txCQLen THEN {cqEvDone}
  ELSE {d \in 0 .. cqEvDone : txCQLen - d <= cqEvId}
IdReads(rd) == IF cqEvId <= txCQLen - rd THEN cqEvId ELSE txCQLen - rd
checkTxCmplsCQ(rd) ==
  /\ numTxnsOut' = numTxnsOut - (IdReads(rd) + rd)
  /\ cqEvId' = cqEvId - IdReads(rd)
  /\ cqEvDone' = cqEvDone - rd
  /\ txnDone' = (txnDone \/ rd > 0)

\* The thread is between calls and has calls left to make.
CqCall ==
  /\ cqPc = "idle"
  /\ cqOps < MaxCqOps
  /\ cqOps' = cqOps + 1

\* Start issuing ids operations with a txnTrkId context and then dn with a
\* fresh txnDone flag.
CqStartIssue(ids, dn, after) ==
  /\ cqIssueId' = ids
  /\ cqIssueDone' = dn
  /\ cqAfter' = after
  /\ txnDone' = FALSE
  /\ cqPc' = "issue"

\* ofi_get(), lines 4520-4552: an fi_read() with a txnDone flag, waited for.
cq_ofi_get ==
  /\ CqCall
  /\ CqStartIssue(0, 1, "waitDone")
  /\ UNCHANGED <<numTxnsOut, numTxnsSent, cqLast, cqNodes, cqFlightId,
                 cqFlightDone, cqEvId, cqEvDone>>
  /\ CqFrame

\* ofi_amo(), lines 4788-4852: an fi_atomic(), fi_fetch_atomic() or
\* fi_compare_atomic() with a txnDone flag, waited for.
cq_ofi_amo ==
  /\ CqCall
  /\ cqIssueId' = 0
  /\ cqIssueDone' = 1
  /\ cqAfter' = "waitDone"
  /\ txnDone' = FALSE
  /\ cqPc' = "amo_issue"
  /\ UNCHANGED <<numTxnsOut, numTxnsSent, cqLast, cqNodes, cqFlightId,
                 cqFlightDone, cqEvId, cqEvDone>>
  /\ CqFrame

\* ofi_amo(), lines 4801-4828: the provider accepts the atomic.
ofi_amo_fi_atomic ==
  /\ cqPc = "amo_issue"
  /\ CqCommitted < cqSize
  /\ numTxnsOut' = numTxnsOut + 1
  /\ numTxnsSent' = numTxnsSent + 1
  /\ cqIssueDone' = cqIssueDone - 1
  /\ cqFlightDone' = cqFlightDone + 1
  /\ cqPc' = "waitForTxnComplete"
  /\ UNCHANGED <<cqIssueId, cqAfter, cqLast, cqNodes, cqFlightId, cqEvId,
                 cqEvDone, txnDone, cqOps>>
  /\ CqFrame

\* ofi_amo(), lines 4802, 4817 and 4822: the atomic is issued under
\* OFI_CHK(), lines 280-290, which takes any answer but FI_SUCCESS, so
\* also -FI_EAGAIN, to OFI_ERR() and the internal error that ends the
\* program.
ofi_amo_OFI_CHK ==
  /\ cqPc = "amo_issue"
  /\ cqPc' = "aborted"
  /\ UNCHANGED <<numTxnsOut, numTxnsSent, cqIssueId, cqIssueDone, cqAfter,
                 cqLast, cqNodes, cqFlightId, cqFlightDone, cqEvId, cqEvDone,
                 txnDone, cqOps>>
  /\ CqFrame

\* ofi_put(), lines 4218-4264.  Delivery-complete: an fi_write() with the
\* txnDone flag.  Message-order, when it waits: an fi_write() with a NULL
\* context, which decodes as txnTrkId, and a dummy GET with the flag.
\* Otherwise an fi_inject_write().
cq_ofi_put(sz) ==
  /\ CqCall
  /\ IF PutWaits(sz)
       THEN CqStartIssue(IF haveDeliveryComplete THEN 0 ELSE 1, 1, "waitDone")
       ELSE /\ cqPc' = "inject"
            /\ UNCHANGED <<cqIssueId, cqIssueDone, cqAfter, txnDone>>
  /\ UNCHANGED <<numTxnsOut, numTxnsSent, cqLast, cqNodes, cqFlightId,
                 cqFlightDone, cqEvId, cqEvDone>>
  /\ CqFrame

\* ofi_put_V(), lines 4339-4356: a batch of v_len PUTs to nn nodes.
ofi_put_V(v_len, nn) ==
  /\ CqCall
  /\ cqPc' = "batch_room"
  /\ cqIssueId' = v_len
  /\ cqAfter' = "release"
  /\ cqNodes' = nn
  /\ UNCHANGED <<numTxnsOut, numTxnsSent, cqIssueDone, cqLast, cqFlightId,
                 cqFlightDone, cqEvId, cqEvDone, txnDone>>
  /\ CqFrame

\* ofi_amo_nf_V(), lines 4864-4880: a batch of v_len non-fetching AMOs.
ofi_amo_nf_V(v_len) ==
  /\ CqCall
  /\ cqPc' = "batch_room"
  /\ cqIssueId' = v_len
  /\ cqAfter' = "return"
  /\ UNCHANGED <<numTxnsOut, numTxnsSent, cqIssueDone, cqLast, cqNodes,
                 cqFlightId, cqFlightDone, cqEvId, cqEvDone, txnDone>>
  /\ CqFrame

\* ofi_get_V(), lines 4621-4631: a batch of v_len GETs.
ofi_get_V(v_len) ==
  /\ CqCall
  /\ cqPc' = "batch_room"
  /\ cqIssueId' = v_len
  /\ cqAfter' = "get_V"
  /\ UNCHANGED <<numTxnsOut, numTxnsSent, cqIssueDone, cqLast, cqNodes,
                 cqFlightId, cqFlightDone, cqEvId, cqEvDone, txnDone>>
  /\ CqFrame

\* Where a batch goes once it has room.
BatchStart == IF cqAfter = "get_V" THEN "get_V" ELSE "issue"

\* Lines 4350, 4637, 4885: the batch fits, no completion is read.
batch_room ==
  /\ cqPc = "batch_room"
  /\ ~BatchMustWait(cqIssueId, numTxnsOut)
  /\ cqPc' = BatchStart
  /\ UNCHANGED <<numTxnsOut, numTxnsSent, cqIssueId, cqIssueDone, cqAfter,
                 cqLast, cqNodes, cqFlightId, cqFlightDone, cqEvId, cqEvDone,
                 txnDone, cqOps>>
  /\ CqFrame

\* Lines 4350-4356, 4637-4643, 4885-4891: the batch does not fit; read
\* completions, yielding in between, until it does.
batch_wait ==
  /\ cqPc = "batch_room"
  /\ BatchMustWait(cqIssueId, numTxnsOut)
  /\ \E rd \in DoneReads : checkTxCmplsCQ(rd)
  /\ cqPc' = IF BatchMustWait(cqIssueId, numTxnsOut')
               THEN "batch_room" ELSE BatchStart
  /\ UNCHANGED <<numTxnsSent, cqIssueId, cqIssueDone, cqAfter, cqLast,
                 cqNodes, cqFlightId, cqFlightDone, cqOps>>
  /\ CqFrame

\* Where the thread goes after the last operation of a call is issued:
\* ofi_amo_nf_V() returns, ofi_put_V() goes on to mcmReleaseAllNodes(), the
\* others wait for the txnDone flag.
AfterIssue(batch) ==
  IF ~batch THEN "waitForTxnComplete"
  ELSE IF cqAfter = "release" THEN "mcmReleaseAllNodes"
  ELSE "idle"

\* The provider accepts the next fi_read/fi_write/fi_atomic/fi_writemsg/
\* fi_atomicmsg of the call: "tcip->numTxnsOut++; tcip->numTxnsSent++".
fi_accept ==
  /\ cqPc = "issue"
  /\ CqCommitted < cqSize
  /\ numTxnsOut' = numTxnsOut + 1
  /\ numTxnsSent' = numTxnsSent + 1
  /\ IF cqIssueId > 0
       THEN /\ cqIssueId' = cqIssueId - 1
            /\ cqFlightId' = cqFlightId + 1
            /\ UNCHANGED <<cqIssueDone, cqFlightDone>>
       ELSE /\ cqIssueDone' = cqIssueDone - 1
            /\ cqFlightDone' = cqFlightDone + 1
            /\ UNCHANGED <<cqIssueId, cqFlightId>>
  /\ cqPc' = IF cqIssueId' + cqIssueDone' = 0
               THEN AfterIssue(cqIssueId > 0) ELSE "issue"
  /\ UNCHANGED <<cqAfter, cqLast, cqNodes, cqEvId, cqEvDone, txnDone, cqOps>>
  /\ CqFrame

\* ofi_put(), lines 4252-4256: fi_inject_write() generates no CQ event and
\* counts in numTxnsSent only.
fi_inject_write ==
  /\ cqPc = "inject"
  /\ numTxnsSent' = numTxnsSent + 1
  /\ cqPc' = "idle"
  /\ UNCHANGED <<numTxnsOut, cqIssueId, cqIssueDone, cqAfter, cqLast, cqNodes,
                 cqFlightId, cqFlightDone, cqEvId, cqEvDone, txnDone, cqOps>>
  /\ CqFrame

\* OFI_RIDE_OUT_EAGAIN, lines 348-367: the provider answers -FI_EAGAIN, as
\* it must when its CQ has no room and as it may at other times; the
\* thread runs ensureProgressFn, which is checkTxCmplsCQ() for a worker
\* context, and tries again.
OFI_RIDE_OUT_EAGAIN ==
  /\ cqPc \in {"issue", "inject", "get_V_issue"}
  /\ \E rd \in DoneReads : checkTxCmplsCQ(rd)
  /\ UNCHANGED <<numTxnsSent, cqPc, cqIssueId, cqIssueDone, cqAfter, cqLast,
                 cqNodes, cqFlightId, cqFlightDone, cqOps>>
  /\ CqFrame

\* waitForTxnComplete(), lines 5073-5082, with a txnTrkDone context: run
\* ensureProgressFn and look at the flag, until it is set.  Back in
\* ofi_put_V() the thread goes on with mcmReleaseAllNodes().
waitForTxnComplete ==
  /\ cqPc = "waitForTxnComplete"
  /\ \E rd \in DoneReads : checkTxCmplsCQ(rd)
  /\ cqPc' = IF ~txnDone' THEN "waitForTxnComplete"
             ELSE IF cqAfter = "release" THEN "mcmReleaseAllNodes"
             ELSE "idle"
  /\ UNCHANGED <<numTxnsSent, cqIssueId, cqIssueDone, cqAfter, cqLast,
                 cqNodes, cqFlightId, cqFlightDone, cqOps>>
  /\ CqFrame

\* mcmReleaseAllNodes(), lines 2622-2632: for every node of the bitmap,
\* read completions until there is room for one transaction, then do the
\* dummy GET of mcmReleaseOneNode(), lines 2586-2596.
mcmReleaseAllNodes ==
  /\ cqPc = "mcmReleaseAllNodes"
  /\ cqNodes > 0
  /\ \E rd \in DoneReads :
       /\ numTxnsOut' = numTxnsOut - (IdReads(rd) + rd)
       /\ cqEvId' = cqEvId - IdReads(rd)
       /\ cqEvDone' = cqEvDone - rd
  /\ IF numTxnsOut' >= txCQLen
       THEN UNCHANGED <<cqPc, cqNodes, cqIssueDone, txnDone>>
       ELSE /\ cqNodes' = cqNodes - 1
            /\ cqIssueDone' = 1
            /\ txnDone' = FALSE
            /\ cqPc' = "issue"
  /\ UNCHANGED <<numTxnsSent, cqIssueId, cqAfter, cqLast, cqFlightId,
                 cqFlightDone, cqOps>>
  /\ CqFrame

\* ofi_put_V(), line 4408: the bitmap is empty, tciFree().
mcmReleaseAllNodes_done ==
  /\ cqPc = "mcmReleaseAllNodes"
  /\ cqNodes = 0
  /\ cqPc' = "idle"
  /\ UNCHANGED <<numTxnsOut, numTxnsSent, cqIssueId, cqIssueDone, cqAfter,
                 cqLast, cqNodes, cqFlightId, cqFlightDone, cqEvId, cqEvDone,
                 txnDone, cqOps>>
  /\ CqFrame

\* ofi_get_V(), lines 4668-4670: count the next GET, then decide whether it
\* is the last of its group.
ofi_get_V_count ==
  /\ cqPc = "get_V"
  /\ numTxnsOut' = numTxnsOut + 1
  /\ numTxnsSent' = numTxnsSent + 1
  /\ cqLast' = ~(numTxnsOut' < txCQLen /\ cqIssueId > 1)
  /\ cqPc' = "get_V_issue"
  /\ UNCHANGED <<cqIssueId, cqIssueDone, cqAfter, cqNodes, cqFlightId,
                 cqFlightDone, cqEvId, cqEvDone, txnDone, cqOps>>
  /\ CqFrame

\* ofi_get_V(), lines 4672-4677: the provider accepts the fi_readmsg().
ofi_get_V_issue ==
  /\ cqPc = "get_V_issue"
  /\ CqCommitted < cqSize
  /\ cqIssueId' = cqIssueId - 1
  /\ cqFlightId' = cqFlightId + 1
  /\ cqPc' = IF cqLast THEN "get_V_wait" ELSE "get_V"
  /\ UNCHANGED <<numTxnsOut, numTxnsSent, cqIssueDone, cqAfter, cqLast,
                 cqNodes, cqFlightDone, cqEvId, cqEvDone, txnDone, cqOps>>
  /\ CqFrame

\* An ofi_get_V() that waits for nothing.
GroupNeverOut(out) == FALSE

\* ofi_get_V(), line 4678: tcip->numTxnsOut > 0.
GroupStillOut(out) == out > 0

\* ofi_get_V(), lines 4678-4680: wait for the whole group.
ofi_get_V_wait ==
  /\ cqPc = "get_V_wait"
  /\ IF GroupStillOut(numTxnsOut)
       THEN /\ \E rd \in DoneReads : checkTxCmplsCQ(rd)
            /\ UNCHANGED cqPc
       ELSE /\ cqPc' = IF cqIssueId > 0 THEN "get_V" ELSE "idle"
            /\ UNCHANGED <<numTxnsOut, cqEvId, cqEvDone, txnDone>>
  /\ UNCHANGED <<numTxnsSent, cqIssueId, cqIssueDone, cqAfter, cqLast,
                 cqNodes, cqFlightId, cqFlightDone, cqOps>>
  /\ CqFrame

\* The provider queues the completion event of a txnTrkId operation.
fabricComplete_Id ==
  /\ cqFlightId > 0
  /\ cqFlightId' = cqFlightId - 1
  /\ cqEvId' = cqEvId + 1
  /\ UNCHANGED <<numTxnsOut, numTxnsSent, cqPc, cqIssueId, cqIssueDone,
                 cqAfter, cqLast, cqNodes, cqFlightDone, cqEvDone, txnDone,
                 cqOps>>
  /\ CqFrame

\* The provider queues the completion event of the txnTrkDone operation.
fabricComplete_Done ==
  /\ cqFlightDone > 0
  /\ cqFlightDone' = cqFlightDone - 1
  /\ cqEvDone' = cqEvDone + 1
  /\ UNCHANGED <<numTxnsOut, numTxnsSent, cqPc, cqIssueId, cqIssueDone,
                 cqAfter, cqLast, cqNodes, cqFlightId, cqEvId, txnDone, cqOps>>
  /\ CqFrame

BatchLens == 1 .. MAX_TXNS_IN_FLIGHT

CqNext ==
  \/ cq_ofi_get
  \/ cq_ofi_amo
  \/ ofi_amo_fi_atomic
  \/ ofi_amo_OFI_CHK
  \/ \E sz \in Sizes : cq_ofi_put(sz)
  \/ \E v \in BatchLens : \E nn \in 1 .. v : ofi_put_V(v, nn)
  \/ \E v \in BatchLens : ofi_amo_nf_V(v)
  \/ \E v \in BatchLens : ofi_get_V(v)
  \/ batch_room
  \/ batch_wait
  \/ fi_accept
  \/ fi_inject_write
  \/ OFI_RIDE_OUT_EAGAIN
  \/ waitForTxnComplete
  \/ mcmReleaseAllNodes
  \/ mcmReleaseAllNodes_done
  \/ ofi_get_V_count
  \/ ofi_get_V_issue
  \/ ofi_get_V_wait
  \/ fabricComplete_Id
  \/ fabricComplete_Done

(***************************************************************************)
(* PART 5.  One task's buffered PUTs and their flush.                      *)
(*                                                                         *)
(* do_remote_put_buff() copies a PUT into the task's buffer; the flush     *)
(* hands the buffered PUTs to ofi_put_V(), which issues them all on one    *)
(* transmit context and then calls mcmReleaseAllNodes() on the nodes it    *)
(* wrote to.  The fabric is the one of PART 2: it writes the target memory *)
(* of an operation at some later moment, in message-order mode after every *)
(* earlier write of the context to the same node, in delivery-complete     *)
(* mode in no promised order.  pvRef is the memory the same PUTs produce   *)
(* when each is an ofi_put() that is visible when it returns.              *)
(***************************************************************************)

\* The addresses and the values of the PUTs; memory starts as 0.
PvAddrs == {"a", "b"}
PvVals == {1, 2}
\* How many flushes the task makes.
MaxFlushes == 2

PvInit ==
  /\ pvBuf = <<>>
  /\ pvPc = "idle"
  /\ pv_vi = 0
  /\ pvBitmap = {}
  /\ pvNet = <<>>
  /\ pvGetDone = FALSE
  /\ pvMem = [n \in Peers |-> [a \in PvAddrs |-> 0]]
  /\ pvRef = [n \in Peers |-> [a \in PvAddrs |-> 0]]
  /\ pvFlushes = 0
  /\ pvTaskEnd = "no"

PvFrame ==
  UNCHANGED <<tciVars, mcmVars, barVars, cqVars, nfVars, ckVars, amhVars,
              xoVars, lzVars, amvVars, lateVars>>

\* do_remote_put_buff(), lines 4434-4475: copy the PUT into the buffer and
\* flush when the buffer is full.
do_remote_put_buff(n, a, v) ==
  /\ pvPc = "idle" /\ pvTaskEnd = "no"
  /\ pvFlushes < MaxFlushes
  /\ Len(pvBuf) < MAX_CHAINED_PUT_LEN
  /\ pvBuf' = Append(pvBuf, [node |-> n, addr |-> a, val |-> v])
  /\ pvRef' = [pvRef EXCEPT ![n][a] = v]
  /\ pvPc' = IF Len(pvBuf') = MAX_CHAINED_PUT_LEN THEN "put_V" ELSE "idle"
  /\ UNCHANGED <<pv_vi, pvBitmap, pvNet, pvGetDone, pvMem, pvFlushes,
                 pvTaskEnd>>
  /\ PvFrame

\* task_local_buff_flush() -> put_buff_task_info_flush(), lines 4421-4431
\* (from chpl_comm_impl_unordered_task_fence()).
put_buff_task_info_flush ==
  /\ pvPc = "idle" /\ pvTaskEnd = "no"
  /\ Len(pvBuf) > 0
  /\ pvPc' = "put_V"
  /\ UNCHANGED <<pvBuf, pv_vi, pvBitmap, pvNet, pvGetDone, pvMem, pvRef,
                 pvFlushes, pvTaskEnd>>
  /\ PvFrame

\* chpl_comm_impl_task_end(), lines 2656-2662: task_local_buff_end(), lines
\* 819-840, flushes the buffered PUTs if there are any.  The task has sent
\* no AM and made no PUT of its own, so retireDelayedAmDone() and
\* waitForPutsVisAllNodes() find amDonePending false and putBitmap NULL,
\* and the function returns once the flush has.
pv_chpl_comm_impl_task_end ==
  /\ pvPc = "idle" /\ pvTaskEnd = "no"
  /\ IF Len(pvBuf) > 0
       THEN pvPc' = "put_V" /\ pvTaskEnd' = "ending"
       ELSE pvPc' = "idle" /\ pvTaskEnd' = "ended"
  /\ UNCHANGED <<pvBuf, pv_vi, pvBitmap, pvNet, pvGetDone, pvMem, pvRef,
                 pvFlushes>>
  /\ PvFrame

\* ofi_put_V(), lines 4368-4400: one fi_writemsg() of the batch, with a
\* txnTrkId context; nothing waits for its completion.
ofi_put_V_writemsg ==
  /\ pvPc = "put_V"
  /\ pv_vi < Len(pvBuf)
  /\ pvNet' = Append(pvNet, [kind |-> "write", node |-> pvBuf[pv_vi + 1].node,
                             addr |-> pvBuf[pv_vi + 1].addr,
                             val |-> pvBuf[pv_vi + 1].val])
  /\ pvBitmap' = pvBitmap \cup {pvBuf[pv_vi + 1].node}
  /\ pv_vi' = pv_vi + 1
  /\ pvPc' = IF pv_vi' = Len(pvBuf) THEN "release" ELSE "put_V"
  /\ UNCHANGED <<pvBuf, pvGetDone, pvMem, pvRef, pvFlushes, pvTaskEnd>>
  /\ PvFrame

\* mcmReleaseAllNodes(), lines 2623-2631, and mcmReleaseOneNode(), lines
\* 2590-2597: a dummy GET from the next node set in the bitmap.
ofi_put_V_release ==
  /\ pvPc = "release"
  /\ pvBitmap # {}
  /\ pvBitmap' = pvBitmap \ {Min(pvBitmap)}
  /\ pvNet' = Append(pvNet, [kind |-> "read", node |-> Min(pvBitmap),
                             addr |-> "a", val |-> 0])
  /\ pvGetDone' = FALSE
  /\ pvPc' = "release_wait"
  /\ UNCHANGED <<pvBuf, pv_vi, pvMem, pvRef, pvFlushes, pvTaskEnd>>
  /\ PvFrame

\* waitForTxnComplete() of the dummy GET, lines 5073-5089.
ofi_put_V_releaseWait ==
  /\ pvPc = "release_wait"
  /\ pvGetDone
  /\ pvPc' = "release"
  /\ UNCHANGED <<pvBuf, pv_vi, pvBitmap, pvNet, pvGetDone, pvMem, pvRef,
                 pvFlushes, pvTaskEnd>>
  /\ PvFrame

\* ofi_put_V() returns, line 4408, and the flush resets info->vi, line 4429.
ofi_put_V_return ==
  /\ pvPc = "release"
  /\ pvBitmap = {}
  /\ pvPc' = "idle"
  /\ pvBuf' = <<>>
  /\ pv_vi' = 0
  /\ pvFlushes' = pvFlushes + 1
  /\ pvTaskEnd' = IF pvTaskEnd = "ending" THEN "ended" ELSE pvTaskEnd
  /\ UNCHANGED <<pvBitmap, pvNet, pvGetDone, pvMem, pvRef>>
  /\ PvFrame

\* The fabric may carry out operation i of the context now.
PvCanApply(i) ==
  \/ haveDeliveryComplete
  \/ \A j \in 1 .. (i - 1) :
       ~(pvNet[j].kind = "write" /\ pvNet[j].node = pvNet[i].node)

\* The fabric carries out an operation: a write changes the target memory,
\* the dummy GET delivers its completion.
pvDeliver(i) ==
  /\ PvCanApply(i)
  /\ pvNet' = RemoveAt(pvNet, i)
  /\ IF pvNet[i].kind = "write"
       THEN /\ pvMem' = [pvMem EXCEPT ![pvNet[i].node][pvNet[i].addr] =
                                        pvNet[i].val]
            /\ UNCHANGED pvGetDone
       ELSE /\ pvGetDone' = TRUE
            /\ UNCHANGED pvMem
  /\ UNCHANGED <<pvBuf, pvPc, pv_vi, pvBitmap, pvRef, pvFlushes, pvTaskEnd>>
  /\ PvFrame

PvNext ==
  \/ \E n \in Peers : \E a \in PvAddrs : \E v \in PvVals :
       do_remote_put_buff(n, a, v)
  \/ put_buff_task_info_flush
  \/ pv_chpl_comm_impl_task_end
  \/ ofi_put_V_writemsg
  \/ ofi_put_V_release
  \/ ofi_put_V_releaseWait
  \/ ofi_put_V_return
  \/ \E i \in 1 .. Len(pvNet) : pvDeliver(i)

(***************************************************************************)
(* PART 6.  Buffered non-fetching AMOs on one counter, then a barrier.      *)
(*                                                                         *)
(* The task of every node but 0 makes nfK buffered non-fetching "add 1"    *)
(* AMOs on a counter of node 0, flushes its buffer and enters the barrier  *)
(* of PART 3; node 0 enters the barrier and then reads the counter.  The   *)
(* barrier PUTs are ofi_put()s of the same task; in message-order mode a   *)
(* PUT of a bound context is carried out after the earlier atomics of the  *)
(* context to the same node, and nothing else orders a PUT and an AMO.     *)
(***************************************************************************)

\* The largest number of AMOs a node makes.
MaxAmos == 2

NfInit ==
  /\ nfK \in 1 .. MaxAmos
  /\ nfPc = [n \in BarNodes |-> "run"]
  /\ nfReq = [n \in BarNodes |-> 0]
  /\ nfBuf = [n \in BarNodes |-> 0]
  /\ nfFlight = [n \in BarNodes |-> 0]
  /\ nfCounter = 0
  /\ nfNotify = [n \in BarNodes |-> "none"]
  /\ nfRelease = [n \in BarNodes |-> "none"]
  /\ nfRead = NULL

NfFrame ==
  UNCHANGED <<tciVars, mcmVars, barVars, cqVars, pvVars, ckVars, amhVars,
              xoVars, lzVars, amvVars, lateVars, nfK>>

\* do_remote_amo_nf_buff(), lines 5746-5809, for a registered counter and a
\* network-valid type: buffer the AMO and flush when the buffer is full.
do_remote_amo_nf_buff(n) ==
  /\ n # 0
  /\ nfPc[n] = "run"
  /\ nfReq[n] < nfK
  /\ nfReq' = [nfReq EXCEPT ![n] = @ + 1]
  /\ nfBuf' = [nfBuf EXCEPT ![n] = @ + 1]
  /\ nfPc' = [nfPc EXCEPT ![n] =
               IF nfBuf'[n] = MAX_CHAINED_AMO_NF_LEN THEN "amo_nf_V" ELSE "run"]
  /\ UNCHANGED <<nfFlight, nfCounter, nfNotify, nfRelease, nfRead>>
  /\ NfFrame

\* chpl_comm_impl_unordered_task_fence() or chpl_comm_impl_task_end() ->
\* task_local_buff_end() -> amo_nf_buff_task_info_flush(), lines 5732-5743.
amo_nf_buff_task_info_flush(n) ==
  /\ nfPc[n] = "run"
  /\ nfBuf[n] > 0
  /\ nfPc' = [nfPc EXCEPT ![n] = "amo_nf_V"]
  /\ UNCHANGED <<nfReq, nfBuf, nfFlight, nfCounter, nfNotify, nfRelease,
                 nfRead>>
  /\ NfFrame

\* ofi_amo_nf_V(), lines 4894-4932: one fi_atomicmsg() of the batch; the
\* function returns after the last without waiting for any completion.
ofi_amo_nf_V_atomicmsg(n) ==
  /\ nfPc[n] = "amo_nf_V"
  /\ nfBuf' = [nfBuf EXCEPT ![n] = @ - 1]
  /\ nfFlight' = [nfFlight EXCEPT ![n] = @ + 1]
  /\ nfPc' = [nfPc EXCEPT ![n] = IF nfBuf'[n] = 0 THEN "run" ELSE "amo_nf_V"]
  /\ UNCHANGED <<nfReq, nfCounter, nfNotify, nfRelease, nfRead>>
  /\ NfFrame

\* chpl_comm_barrier(), lines 5895-5927: a node enters the barrier once its
\* task has made and flushed its AMOs.  retireDelayedAmDone() and
\* waitForPutsVisAllNodes() find nothing to do: the task has sent no AM and
\* injected no PUT.
nf_chpl_comm_barrier(n) ==
  /\ nfPc[n] = "run"
  /\ n # 0 => (nfReq[n] = nfK /\ nfBuf[n] = 0)
  /\ nfPc' = [nfPc EXCEPT ![n] = "barrier"]
  /\ UNCHANGED <<nfReq, nfBuf, nfFlight, nfCounter, nfNotify, nfRelease,
                 nfRead>>
  /\ NfFrame

\* Lines 5929-5960: all children have notified; notify the parent.
nf_bar_notifyParent(n) ==
  /\ nfPc[n] = "barrier"
  /\ \A c \in BarNodes : (c # 0 /\ bar_parent(c) = n) => nfNotify[c] = "arrived"
  /\ nfPc' = [nfPc EXCEPT ![n] = IF n = 0 THEN "release" ELSE "wait_release"]
  /\ nfNotify' = IF n = 0 THEN nfNotify ELSE [nfNotify EXCEPT ![n] = "flight"]
  /\ UNCHANGED <<nfReq, nfBuf, nfFlight, nfCounter, nfRelease, nfRead>>
  /\ NfFrame

\* Lines 5955-5958: the parent has released this node.
nf_bar_waitRelease(n) ==
  /\ nfPc[n] = "wait_release"
  /\ nfRelease[n] = "arrived"
  /\ nfPc' = [nfPc EXCEPT ![n] = "release"]
  /\ UNCHANGED <<nfReq, nfBuf, nfFlight, nfCounter, nfNotify, nfRelease,
                 nfRead>>
  /\ NfFrame

\* Lines 5971-5983: release the children; the barrier is passed.
nf_bar_releaseChildren(n) ==
  /\ nfPc[n] = "release"
  /\ nfRelease' = [c \in BarNodes |->
                     IF c # 0 /\ bar_parent(c) = n THEN "flight"
                     ELSE nfRelease[c]]
  /\ nfPc' = [nfPc EXCEPT ![n] = "passed"]
  /\ UNCHANGED <<nfReq, nfBuf, nfFlight, nfCounter, nfNotify, nfRead>>
  /\ NfFrame

\* Node 0 reads its counter after the barrier (doCpuAMO() on local memory).
nf_read ==
  /\ nfPc[0] = "passed"
  /\ nfRead' = nfCounter
  /\ nfPc' = [nfPc EXCEPT ![0] = "read"]
  /\ UNCHANGED <<nfReq, nfBuf, nfFlight, nfCounter, nfNotify, nfRelease>>
  /\ NfFrame

\* The fabric carries out one AMO of node n: the counter grows by 1.
nfDeliverAmo(n) ==
  /\ nfFlight[n] > 0
  /\ nfFlight' = [nfFlight EXCEPT ![n] = @ - 1]
  /\ nfCounter' = nfCounter + 1
  /\ UNCHANGED <<nfPc, nfReq, nfBuf, nfNotify, nfRelease, nfRead>>
  /\ NfFrame

\* The notification PUT of node n follows the AMOs of n.
NfPutOrdered(n) ==
  ~haveDeliveryComplete /\ tcipBound /\ bar_parent(n) = 0

\* The fabric writes the child_notify flag node n PUT to its parent.
nfDeliverNotify(n) ==
  /\ nfNotify[n] = "flight"
  /\ NfPutOrdered(n) => nfFlight[n] = 0
  /\ nfNotify' = [nfNotify EXCEPT ![n] = "arrived"]
  /\ UNCHANGED <<nfPc, nfReq, nfBuf, nfFlight, nfCounter, nfRelease, nfRead>>
  /\ NfFrame

\* The fabric writes the parent_release flag of node n.
nfDeliverRelease(n) ==
  /\ nfRelease[n] = "flight"
  /\ nfRelease' = [nfRelease EXCEPT ![n] = "arrived"]
  /\ UNCHANGED <<nfPc, nfReq, nfBuf, nfFlight, nfCounter, nfNotify, nfRead>>
  /\ NfFrame

NfNext ==
  \/ \E n \in BarNodes : do_remote_amo_nf_buff(n)
  \/ \E n \in BarNodes : amo_nf_buff_task_info_flush(n)
  \/ \E n \in BarNodes : ofi_amo_nf_V_atomicmsg(n)
  \/ \E n \in BarNodes : nf_chpl_comm_barrier(n)
  \/ \E n \in BarNodes : nf_bar_notifyParent(n)
  \/ \E n \in BarNodes : nf_bar_waitRelease(n)
  \/ \E n \in BarNodes : nf_bar_releaseChildren(n)
  \/ nf_read
  \/ \E n \in BarNodes : nfDeliverAmo(n)
  \/ \E n \in BarNodes : nfDeliverNotify(n)
  \/ \E n \in BarNodes : nfDeliverRelease(n)

(***************************************************************************)
(* PART 7.  ofi_put() and ofi_get() of more than max_msg_size bytes.       *)
(*                                                                         *)
(* Sizes and offsets are size_t, modelled as unsigned numbers of SizeBits  *)
(* bits so that sizes next to the largest one are among the cases.  A      *)
(* transfer of the split is a recursive call with a size that is not split *)
(* again; ckXfers records its local offset, remote offset and length.      *)
(***************************************************************************)

\* The width of size_t (64 in the source, scaled).
SizeBits == 4
SizeMod == 2 ^ SizeBits
\* The largest max_msg_size of a provider.
MaxMsgSize == 5

CkInit ==
  /\ max_msg_size \in 1 .. MaxMsgSize
  /\ ckPc = "idle"
  /\ ckOp = "put"
  /\ ckSize = 0
  /\ ck_i = 0
  /\ chunkSize = 0
  /\ ckXfers = <<>>

CkFrame ==
  UNCHANGED <<tciVars, mcmVars, barVars, cqVars, pvVars, nfVars, amhVars,
              xoVars, lzVars, amvVars, lateVars,
              max_msg_size>>

\* ofi_put(), lines 4162-4167, and ofi_get(), lines 4485-4490: a size above
\* max_msg_size starts the loop; any other size is one transfer.
ofi_split_call(op, size) ==
  /\ ckPc \in {"idle", "done"}
  /\ ckOp' = op
  /\ ckSize' = size
  /\ ck_i' = 0
  /\ IF size > max_msg_size
       THEN /\ ckPc' = "loop"
            /\ chunkSize' = max_msg_size
            /\ ckXfers' = <<>>
       ELSE /\ ckPc' = "done"
            /\ chunkSize' = 0
            /\ ckXfers' = <<[loff |-> 0, roff |-> 0, len |-> size]>>
  /\ CkFrame

WholeChunk(c, size, i) == c

\* Lines 4169-4171 and 4492-4494: the last chunk is what is left.
ThisChunk(c, size, i) ==
  IF c > (size - i) % SizeMod THEN (size - i) % SizeMod ELSE c

\* Lines 4168-4174 and 4491-4497: one pass of the loop.
ofi_split_chunk ==
  /\ ckPc = "loop"
  /\ ck_i < ckSize
  /\ chunkSize' = ThisChunk(chunkSize, ckSize, ck_i)
  /\ ckXfers' = Append(ckXfers, [loff |-> ck_i, roff |-> ck_i,
                                 len |-> chunkSize'])
  /\ ck_i' = (ck_i + chunkSize') % SizeMod
  /\ UNCHANGED <<ckPc, ckOp, ckSize>>
  /\ CkFrame

\* Lines 4168 and 4176, 4491 and 4499: the loop ends, return NULL.
ofi_split_return ==
  /\ ckPc = "loop"
  /\ ~(ck_i < ckSize)
  /\ ckPc' = "done"
  /\ UNCHANGED <<ckOp, ckSize, ck_i, chunkSize, ckXfers>>
  /\ CkFrame

CkNext ==
  \/ \E op \in {"put", "get"} : \E size \in 0 .. (SizeMod - 1) :
       ofi_split_call(op, size)
  \/ ofi_split_chunk
  \/ ofi_split_return

(***************************************************************************)
(* PART 8.  The AM handler thread of one node and fini_amHandling().       *)
(*                                                                         *)
(* The handler polls, processes the requests it has received and leaves    *)
(* its loop when it finds amHandlersExit set at the top.  Of the requests, *)
(* an AMO with a result address makes the handler ofi_put() the result and *)
(* then send the 'done' indicator; an AMO without one and a no-op only     *)
(* send 'done'; an executeOn is handed to a task.  The handler's context   *)
(* is bound, so its ofi_put() injects in message-order mode and is an      *)
(* fi_write() with a txnDone flag, waited for, in delivery-complete mode.  *)
(***************************************************************************)

\* How many requests arrive.
MaxAmhReqs == 2
AmhReqKinds == {"AMO_result", "AMO", "Nop", "ExecOn"}

AmhInit ==
  /\ amhPc = "poll"
  /\ amhExit = FALSE
  /\ amhActive = numAmHandlers
  /\ amhFini = "running"
  /\ amhRx = <<>>
  /\ amhArrived = 0
  /\ amhWriteOut = FALSE
  /\ amhTxnDone = FALSE
  /\ amhNumTxnsOut = 0
  /\ amhDones = 0

AmhFrame ==
  UNCHANGED <<tciVars, mcmVars, barVars, cqVars, pvVars, nfVars, ckVars,
              xoVars, lzVars, amvVars, lateVars>>

\* A request of another node arrives in the receive buffer.
amhArrive(k) ==
  /\ amhArrived < MaxAmhReqs
  /\ amhArrived' = amhArrived + 1
  /\ amhRx' = Append(amhRx, k)
  /\ UNCHANGED <<amhPc, amhExit, amhActive, amhFini, amhWriteOut, amhTxnDone,
                 amhDones>>
  /\ UNCHANGED amhNumTxnsOut
  /\ AmhFrame

\* fini_amHandling(), lines 3295-3297: under the mutex, set amHandlersExit
\* and wait on the condition.
amh_fini_amHandling ==
  /\ amhFini = "running"
  /\ amhExit' = TRUE
  /\ amhFini' = "cond_wait"
  /\ UNCHANGED <<amhPc, amhActive, amhRx, amhArrived, amhWriteOut, amhTxnDone,
                 amhDones>>
  /\ UNCHANGED amhNumTxnsOut
  /\ AmhFrame

\* amHandler(), lines 3330-3365, into processRxAmReq(), lines 3453-3502:
\* amHandlersExit was clear at the top of the loop; take a request.
amHandler_processRxAmReq ==
  /\ amhPc = "poll"
  /\ ~amhExit
  /\ amhRx # <<>>
  /\ amhRx' = Tail(amhRx)
  /\ amhPc' = CASE Head(amhRx) = "AMO_result" -> "ofi_put"
                 [] Head(amhRx) \in {"AMO", "Nop"} -> "amSendDone"
                 [] OTHER -> "poll"
  /\ UNCHANGED <<amhExit, amhActive, amhFini, amhArrived, amhWriteOut,
                 amhTxnDone, amhDones>>
  /\ UNCHANGED amhNumTxnsOut
  /\ AmhFrame

\* amHandleAMO(), line 3658, into ofi_put(), lines 4218-4256: the provider
\* accepts the fi_write(), counted in numTxnsOut, or the fi_inject_write().
amh_ofi_put ==
  /\ amhPc = "ofi_put"
  /\ IF haveDeliveryComplete
       THEN /\ amhWriteOut' = TRUE
            /\ amhNumTxnsOut' = amhNumTxnsOut + 1
            /\ amhPc' = "waitForTxnComplete"
       ELSE /\ amhPc' = "amSendDone"
            /\ UNCHANGED <<amhWriteOut, amhNumTxnsOut>>
  /\ UNCHANGED <<amhExit, amhActive, amhFini, amhRx, amhArrived, amhTxnDone,
                 amhDones>>
  /\ AmhFrame

\* OFI_RIDE_OUT_EAGAIN on the AM handler, lines 351-358: the provider
\* answers -FI_EAGAIN; the loop tries again unless amHandlersExit is set, in
\* which case the code after the macro runs as if the operation was issued.
amh_ofi_put_EAGAIN ==
  /\ amhPc = "ofi_put"
  /\ amhPc' = IF ~amhExit THEN "ofi_put"
              ELSE IF haveDeliveryComplete THEN "waitForTxnComplete"
              ELSE "amSendDone"
  /\ amhNumTxnsOut' = IF amhExit /\ haveDeliveryComplete
                        THEN amhNumTxnsOut + 1 ELSE amhNumTxnsOut
  /\ UNCHANGED <<amhExit, amhActive, amhFini, amhRx, amhArrived, amhWriteOut,
                 amhTxnDone, amhDones>>
  /\ AmhFrame

\* waitForTxnComplete(), lines 5077-5081: the loop ends when the flag is
\* set; it does not look at amHandlersExit.
amh_waitForTxnComplete ==
  /\ amhPc = "waitForTxnComplete"
  /\ amhTxnDone
  /\ amhTxnDone' = FALSE
  /\ amhPc' = "amSendDone"
  /\ UNCHANGED <<amhExit, amhActive, amhFini, amhRx, amhArrived, amhWriteOut,
                 amhDones>>
  /\ UNCHANGED amhNumTxnsOut
  /\ AmhFrame

\* The fabric completes the handler's fi_write(); checkTxCmplsCQ(), lines
\* 4994-5013, reads the event, sets the flag and un-counts the transaction.
amhFabricComplete ==
  /\ amhWriteOut
  /\ amhWriteOut' = FALSE
  /\ amhTxnDone' = TRUE
  /\ amhNumTxnsOut' = amhNumTxnsOut - 1
  /\ UNCHANGED <<amhPc, amhExit, amhActive, amhFini, amhRx, amhArrived,
                 amhDones>>
  /\ AmhFrame

\* amSendDone(), lines 3673-3689, into ofi_put_ll(), lines 4311-4319: the
\* provider accepts the fi_inject_write() of the 'done' indicator.
amh_amSendDone ==
  /\ amhPc = "amSendDone"
  /\ amhDones' = amhDones + 1
  /\ amhPc' = "poll"
  /\ UNCHANGED <<amhExit, amhActive, amhFini, amhRx, amhArrived, amhWriteOut,
                 amhTxnDone>>
  /\ UNCHANGED amhNumTxnsOut
  /\ AmhFrame

\* The same under -FI_EAGAIN: with amHandlersExit set the 'done' indicator
\* is dropped.
amh_amSendDone_EAGAIN ==
  /\ amhPc = "amSendDone"
  /\ amhPc' = IF amhExit THEN "poll" ELSE "amSendDone"
  /\ UNCHANGED <<amhExit, amhActive, amhFini, amhRx, amhArrived, amhWriteOut,
                 amhTxnDone, amhDones>>
  /\ UNCHANGED amhNumTxnsOut
  /\ AmhFrame

\* amHandler(), lines 3330 and 3382-3390: amHandlersExit is set at the top
\* of the loop; under the mutex, un-count the thread and signal.
amHandler_leave ==
  /\ amhPc = "poll"
  /\ amhExit
  /\ amhFini = "cond_wait"
  /\ amhActive' = amhActive - 1
  /\ amhFini' = IF amhActive' = 0 THEN "signalled" ELSE amhFini
  /\ amhPc' = "exited"
  /\ UNCHANGED <<amhExit, amhRx, amhArrived, amhWriteOut, amhTxnDone, amhDones>>
  /\ UNCHANGED amhNumTxnsOut
  /\ AmhFrame

\* fini_amHandling(), lines 3297-3300: the condition wait returns.
amh_fini_amHandling_return ==
  /\ amhFini = "signalled"
  /\ amhFini' = "returned"
  /\ UNCHANGED <<amhPc, amhExit, amhActive, amhRx, amhArrived, amhWriteOut,
                 amhTxnDone, amhDones>>
  /\ UNCHANGED amhNumTxnsOut
  /\ AmhFrame

AmhNext ==
  \/ \E k \in AmhReqKinds : amhArrive(k)
  \/ amh_fini_amHandling
  \/ amHandler_processRxAmReq
  \/ amh_ofi_put
  \/ amh_ofi_put_EAGAIN
  \/ amh_waitForTxnComplete
  \/ amhFabricComplete
  \/ amh_amSendDone
  \/ amh_amSendDone_EAGAIN
  \/ amHandler_leave
  \/ amh_fini_amHandling_return

(***************************************************************************)
(* PART 9.  One executeOn and its argument bundle.                         *)
(*                                                                         *)
(* A bundle is a header (the kind and the comm data: argSize, the 'done'   *)
(* pointer) followed by a payload; its size is counted in cells, HdrSize   *)
(* for the header and one for each payload value.  A request that is sent  *)
(* carries the first 'size' cells of the request buffer.  The initiator's  *)
(* memory holds the caller's payload and, when amRequestExecOn() makes     *)
(* one, the heap copy; the caller may destroy its payload once the call    *)
(* has returned.                                                           *)
(***************************************************************************)

\* offsetof(chpl_comm_on_bundle_t, payload), in cells.
HdrSize == 2
\* Line 194, in cells.
AM_MAX_EXEC_ON_PAYLOAD_SIZE == 2
\* The longest payload of a call.
MaxPayload == 4
XoPayloadVals == {1, 2}

\* sizeof(amRequest_t), lines 2740-2747: the union is as large as struct
\* amRequest_execOn_t, lines 196-199.
sizeof_amRequest_t == HdrSize + AM_MAX_EXEC_ON_PAYLOAD_SIZE
\* sizeof(struct amRequest_execOnLrg_t), lines 201-204: header and pointer.
sizeof_xol == HdrSize + 1

XoNull == [kind |-> "none"]
XoPayloadsOfLen(n) == [1..n -> XoPayloadVals]
XoPayloads == UNION {XoPayloadsOfLen(n) : n \in 0..MaxPayload}
\* Memory that was never allocated, was freed or was destroyed.
XoGone == <<0>>

XoInit ==
  /\ xoPc = "idle"
  /\ xoArg = [argSize |-> 0, blocking |-> FALSE, registered |-> FALSE,
              payload |-> <<>>]
  /\ xoMem = [arg |-> XoGone, copy |-> XoGone]
  /\ xoMsg = XoNull
  /\ xoTgt = "idle"
  /\ xoXol = XoNull
  /\ xoBundle = XoNull
  /\ xoFree = XoNull
  /\ xoDone = FALSE
  /\ xoFrees = <<>>

XoFrame ==
  UNCHANGED <<tciVars, mcmVars, barVars, cqVars, pvVars, nfVars, ckVars,
              amhVars, lzVars, amvVars, lateVars>>

\* An amRequestExecOn() that sends a bundle inline only when it is smaller
\* than a request.
FitsBelowRequest(argSize) == argSize < sizeof_amRequest_t

\* amRequestExecOn(), line 2865: argSize <= sizeof(amRequest_t).
FitsInRequest(argSize) == argSize <= sizeof_amRequest_t

\* amRequestExecOn(), line 2890: heapCopyArg.
heapCopyArg(blocking, registered) == ~blocking \/ ~registered

\* The first n cells of the payload part of a request buffer of 'size' cells.
XoTake(payload, size) ==
  SubSeq(payload, 1, IF size - HdrSize < Len(payload) THEN size - HdrSize
                     ELSE Len(payload))

\* amRequestExecOn(), lines 2849-2910, up to the return of the send in
\* amRequestCommon(): the comm data are set; a bundle that fits is sent as
\* am_opExecOn, argSize cells of the caller's bundle; any other is sent as
\* am_opExecOnLrg, sizeof(req.xol) cells: the header and the address of the
\* payload or of its heap copy.
xo_amRequestExecOn(payload, blocking, registered) ==
  /\ xoPc = "idle"
  /\ LET argSize == HdrSize + Len(payload)
         comm == [argSize |-> argSize, pAmDone |-> blocking]
     IN  /\ xoArg' = [argSize |-> argSize, blocking |-> blocking,
                      registered |-> registered, payload |-> payload]
         /\ IF FitsInRequest(argSize)
              THEN /\ xoMsg' = [kind |-> "am_opExecOn", comm |-> comm,
                                size |-> argSize,
                                payload |-> XoTake(payload, argSize),
                                pPayload |-> "NULL"]
                   /\ xoMem' = [xoMem EXCEPT !.arg = payload]
              ELSE /\ xoMsg' = [kind |-> "am_opExecOnLrg", comm |-> comm,
                                size |-> sizeof_xol,
                                payload |-> <<>>,
                                pPayload |->
                                  IF heapCopyArg(blocking, registered)
                                    THEN "copy" ELSE "arg"]
                   /\ xoMem' = [arg |-> payload,
                                copy |-> IF heapCopyArg(blocking, registered)
                                           THEN payload ELSE xoMem.copy]
  /\ xoPc' = IF blocking THEN "amWaitForDone" ELSE "returned"
  /\ UNCHANGED <<xoTgt, xoXol, xoBundle, xoFree, xoDone, xoFrees>>
  /\ XoFrame

\* amRequestCommon(), line 3143, and amRequestExecOn(), lines 2906-2908:
\* the blocking call waits for 'done' and then frees its heap copy.
xo_amWaitForDone ==
  /\ xoPc = "amWaitForDone" /\ xoDone
  /\ xoPc' = "returned"
  /\ IF ~FitsInRequest(xoArg.argSize)
        /\ heapCopyArg(xoArg.blocking, xoArg.registered)
       THEN /\ xoMem' = [xoMem EXCEPT !.copy = XoGone]
            /\ xoFrees' = Append(xoFrees, "initiator")
       ELSE UNCHANGED <<xoMem, xoFrees>>
  /\ UNCHANGED <<xoArg, xoMsg, xoTgt, xoXol, xoBundle, xoFree, xoDone>>
  /\ XoFrame

\* The caller destroys its bundle after the call has returned.
xo_callerDestroysArg ==
  /\ xoPc = "returned" /\ xoMem.arg # XoGone
  /\ xoMem' = [xoMem EXCEPT !.arg = XoGone]
  /\ UNCHANGED <<xoPc, xoArg, xoMsg, xoTgt, xoXol, xoBundle, xoFree, xoDone,
                 xoFrees>>
  /\ XoFrame

\* processRxAmReq(), lines 3454-3464: am_opExecOn goes to amHandleExecOn()
\* or amWrapExecOnBody() with the request as the bundle; am_opExecOnLrg
\* goes to amHandleExecOnLrg(), lines 3556-3563, which starts
\* amWrapExecOnLrgBody() on a copy of the request.
xo_processRxAmReq ==
  /\ xoMsg # XoNull /\ xoTgt = "idle"
  /\ IF xoMsg.kind = "am_opExecOn"
       THEN /\ xoBundle' = [comm |-> xoMsg.comm, payload |-> xoMsg.payload]
            /\ xoTgt' = "amWrapExecOnBody"
            /\ UNCHANGED xoXol
       ELSE /\ xoXol' = xoMsg
            /\ xoTgt' = "amWrapExecOnLrgBody"
            /\ UNCHANGED xoBundle
  /\ xoMsg' = XoNull
  /\ UNCHANGED <<xoPc, xoArg, xoMem, xoFree, xoDone, xoFrees>>
  /\ XoFrame

\* mrGetKey() of memory of the initiator, lines 2520-2567: the heap is
\* registered (lines 1964-1981), the caller's bundle is or is not.
xo_mrGetKey(p) == p = "copy" \/ (p = "arg" /\ xoArg.registered)

\* A target that has the initiator free the payload after every GET.
TargetFreesAlways(comm) == TRUE
\* amWrapExecOnLrgBody(), line 3600: comm->pAmDone == NULL.
TargetFreesCopy(comm) == ~comm.pAmDone

\* amWrapExecOnLrgBody(), lines 3566-3603: a bundle of argSize cells gets
\* the header of the request and, by ofi_get(), payloadSize cells from
\* pPayload on the initiator; a nonblocking executeOn then has the
\* initiator free the copy.  Reading memory that is gone yields any values.
xo_amWrapExecOnLrgBody ==
  /\ xoTgt = "amWrapExecOnLrgBody"
  /\ LET comm == xoXol.comm
         payloadSize == comm.argSize - HdrSize
         src == xoMem[xoXol.pPayload]
     IN  IF ~xo_mrGetKey(xoXol.pPayload)
           THEN /\ xoTgt' = "aborted"
                /\ UNCHANGED <<xoBundle, xoFree>>
           ELSE /\ \E data \in XoPayloadsOfLen(payloadSize) :
                     /\ src # XoGone =>
                          data = SubSeq(src, 1, payloadSize)
                     /\ xoBundle' = [comm |-> comm, payload |-> data]
                /\ xoFree' = IF TargetFreesCopy(comm)
                               THEN [kind |-> "am_opFree",
                                     p |-> xoXol.pPayload]
                               ELSE xoFree
                /\ xoTgt' = "amWrapExecOnBody"
  /\ UNCHANGED <<xoPc, xoArg, xoMem, xoMsg, xoXol, xoDone, xoFrees>>
  /\ XoFrame

\* amWrapExecOnBody(), lines 3545-3553, and amWrapExecOnLrgBody(), lines
\* 3605-3613: the body function is called with the bundle, then 'done' is
\* sent if the initiator waits for it.
xo_chpl_ftable_call ==
  /\ xoTgt = "amWrapExecOnBody"
  /\ xoTgt' = "ran"
  /\ xoDone' = (xoDone \/ xoBundle.comm.pAmDone)
  /\ UNCHANGED <<xoPc, xoArg, xoMem, xoMsg, xoXol, xoBundle, xoFree,
                 xoFrees>>
  /\ XoFrame

\* processRxAmReq() on the initiator, lines 3490-3492: am_opFree.
xo_amHandleFree ==
  /\ xoFree # XoNull
  /\ xoMem' = [xoMem EXCEPT ![xoFree.p] = XoGone]
  /\ xoFrees' = Append(xoFrees, "handler")
  /\ xoFree' = XoNull
  /\ UNCHANGED <<xoPc, xoArg, xoMsg, xoTgt, xoXol, xoBundle, xoDone>>
  /\ XoFrame

XoNext ==
  \/ \E payload \in XoPayloads, blocking \in BOOLEAN, registered \in BOOLEAN :
       xo_amRequestExecOn(payload, blocking, registered)
  \/ xo_amWaitForDone
  \/ xo_callerDestroysArg
  \/ xo_processRxAmReq
  \/ xo_amWrapExecOnLrgBody
  \/ xo_chpl_ftable_call
  \/ xo_amHandleFree

(***************************************************************************)
(* PART 10.  The AM landing zones of one node.                             *)
(*                                                                         *)
(* The receive endpoint packs arriving requests into the oldest posted     *)
(* multi-receive buffer and reports each with an FI_RECV event.  When the  *)
(* free space of the buffer falls below FI_OPT_MIN_MULTI_RECV the provider *)
(* releases the buffer and reports FI_MULTI_RECV, on the event of the last *)
(* request or on one of its own.  Sizes are counted in cells.              *)
(***************************************************************************)

\* amLZSize, line 2045, in cells.
amLZSize == 3
\* FI_OPT_MIN_MULTI_RECV, lines 2055-2062, in cells.
MinMultiRecv == 2
\* How many requests arrive.
MaxLzReqs == 4
\* fi_cq_read() of processRxAmReq(), lines 3401-3402: cqes[5].
maxEvents == 5
LzReqSizes == 1 .. MinMultiRecv
LzBufs == {0, 1}

\* init_ofiForAms(), lines 2071-2093: both landing zones are allocated and
\* ofi_msg_reqs[0] is posted.
LzInit ==
  /\ lzPosted = <<0>>
  /\ lzFree = [b \in LzBufs |-> amLZSize]
  /\ ofi_msg_i = 0
  /\ lzCq = <<>>
  /\ lzArrived = 0
  /\ lzUnlanded = 0

LzFrame ==
  UNCHANGED <<tciVars, mcmVars, barVars, cqVars, pvVars, nfVars, ckVars,
              amhVars, xoVars, amvVars, lateVars>>

LzEvent(recv, multi) == [FI_RECV |-> recv, FI_MULTI_RECV |-> multi]

\* A request of another node reaches the receive endpoint.
lzArrive(sz, own) ==
  /\ lzArrived < MaxLzReqs
  /\ lzArrived' = lzArrived + 1
  /\ IF lzPosted = <<>>
       THEN /\ lzUnlanded' = lzUnlanded + 1
            /\ UNCHANGED <<lzPosted, lzFree, lzCq>>
       ELSE LET b == Head(lzPosted)
                left == lzFree[b] - sz
                released == left < MinMultiRecv
            IN  /\ lzFree' = [lzFree EXCEPT ![b] = left]
                /\ lzPosted' = IF released THEN Tail(lzPosted) ELSE lzPosted
                /\ lzCq' = IF released /\ own
                             THEN lzCq \o <<LzEvent(TRUE, FALSE),
                                            LzEvent(FALSE, TRUE)>>
                             ELSE Append(lzCq, LzEvent(TRUE, released))
                /\ UNCHANGED lzUnlanded
  /\ UNCHANGED ofi_msg_i
  /\ LzFrame

\* How many of the events es (the batch of one fi_cq_read()) report
\* FI_MULTI_RECV.
RECURSIVE LzMultiRecvs(_)
LzMultiRecvs(es) ==
  IF es = <<>> THEN 0
  ELSE (IF Head(es).FI_MULTI_RECV THEN 1 ELSE 0) + LzMultiRecvs(Tail(es))

\* The landing zone that is not ofi_msg_i, line 3511.
LzOther(i) == 1 - i

\* ofi_msg_i and the buffers posted after the FI_MULTI_RECV events of a
\* batch, lines 3507-3517: each posts the other landing zone, empty again.
RECURSIVE LzRepost(_, _, _)
LzRepost(n, i, posted) ==
  IF n = 0 THEN [i |-> i, posted |-> posted]
  ELSE LzRepost(n - 1, LzOther(i), Append(posted, LzOther(i)))

\* processRxAmReq(), lines 3396-3525: up to maxEvents events are read; the
\* request of an FI_RECV event is handled, and for an FI_MULTI_RECV event
\* the other landing zone is posted with fi_recvmsg().
lz_processRxAmReq ==
  /\ lzCq # <<>>
  /\ LET n == IF Len(lzCq) < maxEvents THEN Len(lzCq) ELSE maxEvents
         batch == SubSeq(lzCq, 1, n)
         r == LzRepost(LzMultiRecvs(batch), ofi_msg_i, lzPosted)
     IN  /\ lzCq' = SubSeq(lzCq, n + 1, Len(lzCq))
         /\ ofi_msg_i' = r.i
         /\ lzPosted' = r.posted
         /\ lzFree' = [b \in LzBufs |->
                         IF \E k \in Len(lzPosted) + 1 .. Len(r.posted) :
                              r.posted[k] = b
                           THEN amLZSize ELSE lzFree[b]]
  /\ UNCHANGED <<lzArrived, lzUnlanded>>
  /\ LzFrame

LzNext ==
  \/ \E sz \in LzReqSizes, own \in BOOLEAN : lzArrive(sz, own)
  \/ lz_processRxAmReq

(***************************************************************************)
(* PART 11.  A task's PUTs, its AMOs and its delayed-blocking AM.          *)
(*                                                                         *)
(* The task PUTs small values to registered memory of its peers and does   *)
(* AMOs, singly through doAMO() or, for the calls of the                   *)
(* chpl_comm_atomic_*_unordered interface, through do_remote_amo_nf_buff() *)
(* and the task's buffer.  An AMO the network cannot do goes to the peer   *)
(* as an AM; for a non-fetching one the task does not wait but leaves      *)
(* amDonePending set.  A PUT that ofi_put() waited for is in its target    *)
(* when ofi_put() returns; an injected one is on its way until the fabric  *)
(* delivers it.  The AMOs of this part that the network cannot do are      *)
(* non-fetching writes.                                                    *)
(***************************************************************************)

\* How many operations the task calls.
MaxAmvOps == 3
AmvOps == {"read", "write"}
AmvNoOp == [kind |-> "none", node |-> 0, ofiOp |-> "none", native |-> TRUE]

AmvInit ==
  /\ amvPc = "idle"
  /\ amvOp = AmvNoOp
  /\ amvBitmap = {}
  /\ amvPutNet = {}
  /\ amvBuf = <<>>
  /\ amvDonePending = FALSE
  /\ amvDone = 0
  /\ amvAmNet = 0
  /\ amvIssued = <<>>
  /\ amvOps = 0

AmvFrame ==
  UNCHANGED <<tciVars, mcmVars, barVars, cqVars, pvVars, nfVars, ckVars,
              amhVars, xoVars, lzVars, lateVars>>

\* What the task hands to the fabric, with the peers its PUTs were on
\* their way to, and the delayed AM of before, at that moment.
AmvIssue(kind, n, ofiOp, batch) ==
  [kind |-> kind, node |-> n, ofiOp |-> ofiOp, batch |-> batch,
   putsOut |-> amvPutNet, donePending |-> amvDonePending,
   amOut |-> amvAmNet]

\* chpl_comm_put(), doAMO() or do_remote_amo_nf_buff() is called, for a
\* peer.
amv_call(kind, n, ofiOp, native) ==
  /\ amvPc = "idle" /\ amvOps < MaxAmvOps
  /\ amvOps' = amvOps + 1
  /\ amvOp' = [kind |-> kind, node |-> n, ofiOp |-> ofiOp,
               native |-> native]
  /\ amvPc' = "retire"
  /\ UNCHANGED <<amvBitmap, amvPutNet, amvBuf, amvDonePending, amvDone,
                 amvAmNet, amvIssued>>
  /\ AmvFrame

\* Where the operation goes on after retireDelayedAmDone(): lines 3802-3830
\* (PUT), 5526-5550 (doAMO) and 5760-5775 (do_remote_amo_nf_buff).
AmvAfterRetire(op) ==
  IF op.kind = "put" THEN "ofi_put"
  ELSE IF ~op.native THEN "amRequestAMO"
  ELSE IF op.kind = "amo" THEN "ofi_amo" ELSE "nf_buff"

\* retireDelayedAmDone(false), lines 3218-3233, first thing in
\* chpl_comm_put() (3801), doAMO() (5524) and do_remote_amo_nf_buff()
\* (5758): amWaitForDone() when amDonePending.
amv_retireDelayedAmDone ==
  /\ amvPc = "retire"
  /\ amvDonePending => amvDone = 1
  /\ amvDonePending' = FALSE
  /\ amvPc' = AmvAfterRetire(amvOp)
  /\ UNCHANGED <<amvOp, amvBitmap, amvPutNet, amvBuf, amvDone, amvAmNet,
                 amvIssued, amvOps>>
  /\ AmvFrame

\* ofi_put(), lines 4218-4261, of a size that can be injected: written and
\* waited for, or injected with the node's bit set.
amv_ofi_put ==
  /\ amvPc = "ofi_put"
  /\ amvIssued' = Append(amvIssued, AmvIssue("put", amvOp.node, "put", FALSE))
  /\ IF PutWaits("small")
       THEN UNCHANGED <<amvBitmap, amvPutNet>>
       ELSE /\ amvBitmap' = amvBitmap \cup {amvOp.node}
            /\ amvPutNet' = amvPutNet \cup {amvOp.node}
  /\ amvPc' = "idle"
  /\ UNCHANGED <<amvOp, amvBuf, amvDonePending, amvDone, amvAmNet, amvOps>>
  /\ AmvFrame

\* The fabric writes the data of an injected PUT.
amvDeliverPut(n) ==
  /\ n \in amvPutNet
  /\ amvPutNet' = amvPutNet \ {n}
  /\ UNCHANGED <<amvPc, amvOp, amvBitmap, amvBuf, amvDonePending, amvDone,
                 amvAmNet, amvIssued, amvOps>>
  /\ AmvFrame

\* An ofi_amo() that forces no PUT visible.
AmoWaitsForNoPuts(ofiOp) == FALSE

\* ofi_amo(), line 4784: ofiOp != FI_ATOMIC_READ.
AmoWaitsForPuts(ofiOp) == ofiOp # "read"

\* waitForPutsVisAllNodes(), lines 5117-5153: outside delivery-complete
\* mode and on a bound context every node of putBitmap is cleared and read
\* from, and the reads are waited for; they return after the PUTs to those
\* nodes are in memory.
AmvPutsVisible ==
  (~haveDeliveryComplete /\ tcipBound) => amvBitmap \cap amvPutNet = {}

\* ofi_amo(), lines 4784-4786.
amv_waitForPutsVisAllNodes ==
  /\ amvPc = "ofi_amo"
  /\ IF AmoWaitsForPuts(amvOp.ofiOp)
       THEN AmvPutsVisible /\ amvBitmap' = {}
       ELSE UNCHANGED amvBitmap
  /\ amvPc' = "fi_atomic"
  /\ UNCHANGED <<amvOp, amvPutNet, amvBuf, amvDonePending, amvDone,
                 amvAmNet, amvIssued, amvOps>>
  /\ AmvFrame

\* ofi_amo(), lines 4799-4858: the atomic is issued and waited for.
amv_ofi_amo_fi_atomic ==
  /\ amvPc = "fi_atomic"
  /\ amvIssued' =
       Append(amvIssued, AmvIssue("amo", amvOp.node, amvOp.ofiOp, FALSE))
  /\ amvPc' = "idle"
  /\ UNCHANGED <<amvOp, amvBitmap, amvPutNet, amvBuf, amvDonePending,
                 amvDone, amvAmNet, amvOps>>
  /\ AmvFrame

\* amRequestAMO(), lines 2956-2958, for a non-fetching AMO:
\* setUpDelayedAmDone(), lines 3184-3215, for a task that is not ending.
amv_amRequestAMO ==
  /\ amvPc = "amRequestAMO"
  /\ amvDone' = 0
  /\ amvDonePending' = TRUE
  /\ amvPc' = "amRequestCommon"
  /\ UNCHANGED <<amvOp, amvBitmap, amvPutNet, amvBuf, amvAmNet, amvIssued,
                 amvOps>>
  /\ AmvFrame

\* amRequestCommon(), lines 3110-3150, for the AMO: the PUTs to all nodes
\* are forced visible, the request is sent, and the task goes on without
\* waiting for amDone.
amv_amRequestCommon ==
  /\ amvPc = "amRequestCommon"
  /\ AmvPutsVisible /\ amvBitmap' = {}
  /\ amvIssued' =
       Append(amvIssued, AmvIssue("am", amvOp.node, amvOp.ofiOp, FALSE))
  /\ amvAmNet' = amvAmNet + 1
  /\ amvPc' = "idle"
  /\ UNCHANGED <<amvOp, amvPutNet, amvBuf, amvDonePending, amvDone, amvOps>>
  /\ AmvFrame

\* The peer's AM handler does the AMO and sets the task's amDone,
\* amSendDone(), lines 3718-3738.
amvHandleAm ==
  /\ amvAmNet > 0
  /\ amvAmNet' = amvAmNet - 1
  /\ amvDone' = 1
  /\ UNCHANGED <<amvPc, amvOp, amvBitmap, amvPutNet, amvBuf, amvDonePending,
                 amvIssued, amvOps>>
  /\ AmvFrame

\* ofi_amo_nf_V(), lines 4863-4933: tciAlloc(), room in the CQ, then one
\* fi_atomicmsg() for each buffered AMO, and tciFree().
RECURSIVE ofi_amo_nf_V_issued(_)
ofi_amo_nf_V_issued(buf) ==
  IF buf = <<>> THEN <<>>
  ELSE <<AmvIssue("amo", Head(buf), "write", TRUE)>>
         \o ofi_amo_nf_V_issued(Tail(buf))

\* do_remote_amo_nf_buff(), lines 5777-5809, for an AMO the network can
\* do: the AMO goes into the task's buffer, and a full buffer is flushed
\* by amo_nf_buff_task_info_flush(), lines 5733-5743.
amv_do_remote_amo_nf_buff ==
  /\ amvPc = "nf_buff"
  /\ LET buf == Append(amvBuf, amvOp.node)
     IN  IF Len(buf) = MAX_CHAINED_AMO_NF_LEN
           THEN /\ amvIssued' = amvIssued \o ofi_amo_nf_V_issued(buf)
                /\ amvBuf' = <<>>
           ELSE /\ amvBuf' = buf
                /\ UNCHANGED amvIssued
  /\ amvPc' = "idle"
  /\ UNCHANGED <<amvOp, amvBitmap, amvPutNet, amvDonePending, amvDone,
                 amvAmNet, amvOps>>
  /\ AmvFrame

\* chpl_comm_atomic_unordered_task_fence(), lines 5429-5433:
\* task_local_buff_flush(amo_nf_buff), lines 797-816.
amv_atomic_unordered_task_fence ==
  /\ amvPc = "idle" /\ amvOps < MaxAmvOps
  /\ amvOps' = amvOps + 1
  /\ amvIssued' = amvIssued \o ofi_amo_nf_V_issued(amvBuf)
  /\ amvBuf' = <<>>
  /\ UNCHANGED <<amvPc, amvOp, amvBitmap, amvPutNet, amvDonePending,
                 amvDone, amvAmNet>>
  /\ AmvFrame

AmvNext ==
  \/ \E n \in Peers : amv_call("put", n, "put", TRUE)
  \/ \E n \in Peers, ofiOp \in AmvOps : amv_call("amo", n, ofiOp, TRUE)
  \/ \E n \in Peers : amv_call("amo", n, "write", FALSE)
  \/ \E n \in Peers, native \in BOOLEAN : amv_call("nf", n, "write", native)
  \/ amv_retireDelayedAmDone
  \/ amv_ofi_put
  \/ \E n \in Peers : amvDeliverPut(n)
  \/ amv_waitForPutsVisAllNodes
  \/ amv_ofi_amo_fi_atomic
  \/ amv_amRequestAMO
  \/ amv_amRequestCommon
  \/ amvHandleAm
  \/ amv_do_remote_amo_nf_buff
  \/ amv_atomic_unordered_task_fence

(***************************************************************************)
(* PART 12.  The task-local buffers of one task.                           *)
(*                                                                         *)
(* A task has at most one buffer of each type, allocated by the first     *)
(* buffered operation of that type.  A buffered operation writes slot vi   *)
(* and flushes the buffer when it is full; the fences and the end of the  *)
(* task go through task_local_buff_flush() and task_local_buff_end().      *)
(* The fabric reads the source bytes of a buffered PUT and the operand of  *)
(* a buffered AMO from the slot, at some moment between the fi_writemsg()  *)
(* or fi_atomicmsg() and the operation's completion.  The operations here  *)
(* are those that take the buffered path (small, to registered memory).    *)
(***************************************************************************)

\* How many buffered operations the task calls.
MaxTlbOps == 4
BuffTypes == {"amo_nf_buff", "get_buff", "put_buff"}
\* The order of the DEFINE_FLUSH and DEFINE_END lines.
BuffOrder == <<"amo_nf_buff", "get_buff", "put_buff">>
TlbSlots == 0 .. (MAX_TXNS_IN_FLIGHT - 1)
TlbNoCall == [kind |-> "none", sel |-> {}, all |-> {}]

TlbInit ==
  /\ tlbPc = "idle"
  /\ tlbCall = TlbNoCall
  /\ tlbCur = "none"
  /\ tlbPtr = [b \in BuffTypes |-> FALSE]
  /\ tlbHeap = [b \in BuffTypes |-> FALSE]
  /\ tlbVi = [b \in BuffTypes |-> 0]
  /\ tlbSlot = [b \in BuffTypes |-> [i \in TlbSlots |-> 0]]
  /\ tlbFlight = [b \in BuffTypes |-> {}]
  /\ tlbOps = [b \in BuffTypes |-> 0]
  /\ tlbSent = [b \in BuffTypes |-> 0]
  /\ tlbTaskEnded = FALSE

TlbFrame ==
  UNCHANGED <<tciVars, mcmVars, barVars, cqVars, pvVars, nfVars, ckVars,
              amhVars, xoVars, lzVars, amvVars, mrVars>>

\* A buffer that is never found full.
NeverFull(vi, len) == FALSE
\* do_remote_put_buff, do_remote_get_buff, do_remote_amo_nf_buff:
\* info->vi == MAX_CHAINED_*_LEN.
BufferFull(vi, len) == vi = len

MaxChained(b) ==
  CASE b = "amo_nf_buff" -> MAX_CHAINED_AMO_NF_LEN
    [] b = "get_buff" -> MAX_CHAINED_GET_LEN
    [] b = "put_buff" -> MAX_CHAINED_PUT_LEN

\* do_remote_put_buff(), do_remote_get_buff() or do_remote_amo_nf_buff():
\* task_local_buff_acquire() allocates the buffer if the task has none,
\* the operation goes to slot vi, and a full buffer is flushed.
tlb_do_remote_buff(b) ==
  /\ tlbPc = "idle" /\ ~tlbTaskEnded
  /\ tlbOps["amo_nf_buff"] + tlbOps["get_buff"] + tlbOps["put_buff"]
       < MaxTlbOps
  /\ LET vi == IF tlbPtr[b] THEN tlbVi[b] ELSE 0
         full == BufferFull(vi + 1, MaxChained(b))
     IN /\ tlbPtr' = [tlbPtr EXCEPT ![b] = TRUE]
        /\ tlbHeap' = [tlbHeap EXCEPT ![b] = TRUE]
        /\ tlbSlot' = [tlbSlot EXCEPT ![b][vi] = tlbOps[b] + 1]
        /\ tlbVi' = [tlbVi EXCEPT ![b] = vi + 1]
        /\ tlbOps' = [tlbOps EXCEPT ![b] = @ + 1]
        /\ tlbCall' = [kind |-> "buff", sel |-> {}, all |-> {b}]
        /\ tlbPc' = IF full THEN "flush" ELSE "idle"
        /\ tlbCur' = IF full THEN b ELSE "none"
  /\ UNCHANGED <<tlbFlight, tlbSent, tlbTaskEnded>>
  /\ TlbFrame

\* chpl_comm_getput_unordered_task_fence(),
\* chpl_comm_atomic_unordered_task_fence(): task_local_buff_flush();
\* chpl_comm_impl_unordered_task_fence(), chpl_comm_impl_task_end():
\* task_local_buff_end() of the three types.
TlbCalls ==
  { [kind |-> "flush", sel |-> {"get_buff", "put_buff"},
     all |-> {"get_buff", "put_buff"}],
    [kind |-> "flush", sel |-> {"amo_nf_buff"}, all |-> {"amo_nf_buff"}],
    [kind |-> "end", sel |-> BuffTypes, all |-> BuffTypes],
    [kind |-> "task_end", sel |-> BuffTypes, all |-> BuffTypes] }

tlb_task_local_buff_call(c) ==
  /\ tlbPc = "idle" /\ ~tlbTaskEnded
  /\ tlbCall' = c
  /\ tlbPc' = "scan"
  /\ UNCHANGED <<tlbCur, tlbPtr, tlbHeap, tlbVi, tlbSlot, tlbFlight, tlbOps,
                 tlbSent, tlbTaskEnded>>
  /\ TlbFrame

\* The first selected type, in the order of the macro lines.
TlbFirst(sel) ==
  BuffOrder[CHOOSE i \in 1..3 :
              /\ BuffOrder[i] \in sel
              /\ \A j \in 1..(i - 1) : BuffOrder[j] \notin sel]

\* A task_local_buff_end that destroys any buffer that exists.
HasBuffer(ptr, vi) == ptr
\* DEFINE_FLUSH, DEFINE_END: info != NULL && info->vi > 0.
HasEntries(ptr, vi) == ptr /\ vi > 0

\* One DEFINE_FLUSH or DEFINE_END block, up to the call of the flush; after
\* the last one the function returns.
tlb_task_local_buff_step ==
  /\ tlbPc = "scan"
  /\ IF tlbCall.sel = {}
     THEN /\ tlbPc' = "idle"
          /\ tlbTaskEnded' = (tlbCall.kind = "task_end")
          /\ UNCHANGED <<tlbCall, tlbCur>>
     ELSE LET b == TlbFirst(tlbCall.sel)
          IN IF HasEntries(tlbPtr[b], tlbVi[b])
             THEN /\ tlbPc' = "flush"
                  /\ tlbCur' = b
                  /\ UNCHANGED <<tlbCall, tlbTaskEnded>>
             ELSE /\ tlbCall' = [tlbCall EXCEPT !.sel = @ \ {b}]
                  /\ UNCHANGED <<tlbPc, tlbCur, tlbTaskEnded>>
  /\ UNCHANGED <<tlbPtr, tlbHeap, tlbVi, tlbSlot, tlbFlight, tlbOps,
                 tlbSent>>
  /\ TlbFrame

\* ofi_put_V(), ofi_get_V(), ofi_amo_nf_V(): the batch goes to the fabric,
\* each operation with the address of its slot.  ofi_amo_nf_V() returns
\* at once, ofi_put_V() goes on to mcmReleaseAllNodes() and ofi_get_V()
\* waits for its GETs.
tlb_ofi_V_issue ==
  /\ tlbPc = "flush"
  /\ tlbFlight' =
       [tlbFlight EXCEPT ![tlbCur] =
          @ \cup { [slot |-> i, val |-> tlbSlot[tlbCur][i]] :
                     i \in 0 .. (tlbVi[tlbCur] - 1) }]
  /\ tlbSent' = [tlbSent EXCEPT ![tlbCur] = @ + tlbVi[tlbCur]]
  /\ tlbPc' = CASE tlbCur = "put_buff" -> "release"
                [] tlbCur = "get_buff" -> "get_wait"
                [] tlbCur = "amo_nf_buff" -> "flushed"
  /\ UNCHANGED <<tlbCall, tlbCur, tlbPtr, tlbHeap, tlbVi, tlbSlot, tlbOps,
                 tlbTaskEnded>>
  /\ TlbFrame

\* The fabric has finished with a slot: the operation is complete.
tlbFabricComplete(b, op) ==
  /\ op \in tlbFlight[b]
  /\ tlbFlight' = [tlbFlight EXCEPT ![b] = @ \ {op}]
  /\ UNCHANGED <<tlbPc, tlbCall, tlbCur, tlbPtr, tlbHeap, tlbVi, tlbSlot,
                 tlbOps, tlbSent, tlbTaskEnded>>
  /\ TlbFrame

\* mcmReleaseAllNodes() in ofi_put_V(): the dummy GETs are complete.  With
\* the message orderings a GET completes after the writes before it to the
\* same node; with delivery-complete nothing orders them.
tlb_mcmReleaseAllNodes ==
  /\ tlbPc = "release"
  /\ PutNeedsDummyGet => tlbFlight["put_buff"] = {}
  /\ tlbPc' = "flushed"
  /\ UNCHANGED <<tlbCall, tlbCur, tlbPtr, tlbHeap, tlbVi, tlbSlot,
                 tlbFlight, tlbOps, tlbSent, tlbTaskEnded>>
  /\ TlbFrame

\* ofi_get_V(): while (tcip->numTxnsOut > 0) ensure progress.
tlb_ofi_get_V_wait ==
  /\ tlbPc = "get_wait"
  /\ tlbFlight["get_buff"] = {}
  /\ tlbPc' = "flushed"
  /\ UNCHANGED <<tlbCall, tlbCur, tlbPtr, tlbHeap, tlbVi, tlbSlot,
                 tlbFlight, tlbOps, tlbSent, tlbTaskEnded>>
  /\ TlbFrame

\* *_buff_task_info_flush() returns with info->vi = 0; in DEFINE_END the
\* buffer is then freed and the task's pointer cleared.
tlb_flush_return ==
  /\ tlbPc = "flushed"
  /\ LET b == tlbCur
         ends == tlbCall.kind \in {"end", "task_end"}
     IN /\ tlbVi' = [tlbVi EXCEPT ![b] = 0]
        /\ tlbPtr' = [tlbPtr EXCEPT ![b] = IF ends THEN FALSE ELSE @]
        /\ tlbHeap' = [tlbHeap EXCEPT ![b] = IF ends THEN FALSE ELSE @]
        /\ tlbSlot' = [tlbSlot EXCEPT
                         ![b] = IF ends THEN [i \in TlbSlots |-> 0] ELSE @]
        /\ tlbCall' = [tlbCall EXCEPT !.sel = @ \ {b}]
        /\ tlbPc' = IF tlbCall.kind = "buff" THEN "idle" ELSE "scan"
  /\ tlbCur' = "none"
  /\ UNCHANGED <<tlbFlight, tlbOps, tlbSent, tlbTaskEnded>>
  /\ TlbFrame

TlbNext ==
  \/ \E b \in BuffTypes : tlb_do_remote_buff(b)
  \/ \E c \in TlbCalls : tlb_task_local_buff_call(c)
  \/ tlb_task_local_buff_step
  \/ tlb_ofi_V_issue
  \/ \E b \in BuffTypes : \E op \in tlbFlight[b] : tlbFabricComplete(b, op)
  \/ tlb_mcmReleaseAllNodes
  \/ tlb_ofi_get_V_wait
  \/ tlb_flush_return

(***************************************************************************)
(* PART 13.  Memory registration and the lookup of remote keys.            *)
(*                                                                         *)
(* init_ofiForMem() chooses scalable or basic registration from the        *)
(* provider's mr_mode and the fixed heap, fills the node's memTab and      *)
(* shares it; mrGetKey() looks an address range up in the target node's    *)
(* table.  Addresses and sizes are small numbers; the heap of a node is    *)
(* where that node's allocator put it.                                     *)
(***************************************************************************)

\* The highest address and the longest range looked up.
MaxMrAddr == 5
MaxMrSize == 2
\* Where a fixed heap can start and how long it can be (0: there is none).
MaxHeapStart == 2
MaxHeapSize == 3
MrNodes == {0, 1}
\* The keys a provider with FI_MR_PROV_KEY hands out.
MrProvKeys == {7, 8}
\* init_ofiForMem, lines 1965 and 1975.
numMemRegions == 1
\* memTab[0] of scalable registration, lines 1966-1968; SIZE_MAX is longer
\* than every range.
MrWholeSpace == [addr |-> 0, base |-> 0, size |-> MaxMrAddr + MaxMrSize + 1,
                 key |-> 0]

MrInit ==
  /\ mrPc = "init"
  /\ mr_mode = [FI_MR_VIRT_ADDR |-> FALSE, FI_MR_PROV_KEY |-> FALSE,
                otherBasic |-> FALSE]
  /\ fixedHeap = [n \in MrNodes |-> [start |-> 0, size |-> 0]]
  /\ scalableMemReg = FALSE
  /\ memTabMap = [n \in MrNodes |-> <<MrWholeSpace>>]
  /\ mrCall = [iNode |-> 0, addr |-> 0, size |-> 0]
  /\ mrRet = [ret |-> 0, key |-> 0, off |-> 0]

MrFrame ==
  UNCHANGED <<tciVars, mcmVars, barVars, cqVars, pvVars, nfVars, ckVars,
              amhVars, xoVars, lzVars, amvVars, tlbVars>>

\* A base that is the heap's start when the provider wants virtual
\* addresses.
BaseForOffsets(virtAddr, start) == IF virtAddr THEN start ELSE 0

\* init_ofiForMem, lines 1977-1979: memTab[0].base.
MemTabBase(virtAddr, start) == IF ~virtAddr THEN start ELSE 0

\* init_ofiForMem, lines 1948-1955.
ScalableMemReg(mode, heapSize) ==
  /\ ~mode.FI_MR_VIRT_ADDR /\ ~mode.FI_MR_PROV_KEY /\ ~mode.otherBasic
  /\ heapSize = 0

\* init_ofiForMem(), lines 1934-2015, on every node, with the provider's
\* mr_mode and key and each node's heap: the node's memTab, gathered into
\* memTabMap.  Basic registration without a fixed heap is an internal
\* error.
mr_init_ofiForMem(mode, heapSize, starts, keys) ==
  /\ mrPc = "init"
  /\ mr_mode' = mode
  /\ fixedHeap' = [n \in MrNodes |->
                     [start |-> IF heapSize = 0 THEN 0 ELSE starts[n],
                      size |-> heapSize]]
  /\ scalableMemReg' = ScalableMemReg(mode, heapSize)
  /\ IF ScalableMemReg(mode, heapSize)
       THEN /\ memTabMap' = [n \in MrNodes |-> <<MrWholeSpace>>]
            /\ mrPc' = "ready"
       ELSE IF heapSize = 0
         THEN /\ mrPc' = "INTERNAL_ERROR"
              /\ UNCHANGED memTabMap
         ELSE /\ memTabMap' =
                   [n \in MrNodes |->
                      <<[addr |-> starts[n],
                         base |-> MemTabBase(mode.FI_MR_VIRT_ADDR, starts[n]),
                         size |-> heapSize,
                         key |-> IF mode.FI_MR_PROV_KEY THEN keys[n] ELSE 0]>>]
              /\ mrPc' = "ready"
  /\ UNCHANGED <<mrCall, mrRet>>
  /\ MrFrame

\* A lookup that takes any region the range starts in.
MemEntryHolds(e, addr, size) ==
  addr >= e.addr /\ addr < e.addr + e.size

\* getMemEntry, line 2508: the range lies within the region.
MemEntryContains(e, addr, size) ==
  addr >= e.addr /\ addr + size <= e.addr + e.size

\* getMemEntry(), lines 2501-2513: the index of the first region that
\* contains the range, or NULL.
getMemEntry(tab, addr, size) ==
  LET hits == {i \in 1 .. numMemRegions : MemEntryContains(tab[i], addr, size)}
  IN  IF hits = {} THEN NULL
      ELSE CHOOSE i \in hits : \A j \in hits : i <= j

\* mrGetKey(), lines 2539-2568: what it returns and stores through pKey
\* and pOff.
mrGetKeyOf(iNode, addr, size) ==
  IF scalableMemReg
    THEN [ret |-> 0, key |-> 0, off |-> addr]
    ELSE LET mr == getMemEntry(memTabMap[iNode], addr, size)
         IN  IF mr = NULL
               THEN [ret |-> 0 - 1, key |-> 0, off |-> 0]
               ELSE [ret |-> 0, key |-> memTabMap[iNode][mr].key,
                     off |-> addr - memTabMap[iNode][mr].base]

mr_mrGetKey(iNode, addr, size) ==
  /\ mrPc = "ready"
  /\ mrCall' = [iNode |-> iNode, addr |-> addr, size |-> size]
  /\ mrRet' = mrGetKeyOf(iNode, addr, size)
  /\ mrPc' = "looked_up"
  /\ UNCHANGED <<mr_mode, fixedHeap, scalableMemReg, memTabMap>>
  /\ MrFrame

\* The caller goes on to its next lookup.
mr_next ==
  /\ mrPc = "looked_up"
  /\ mrPc' = "ready"
  /\ UNCHANGED <<mr_mode, fixedHeap, scalableMemReg, memTabMap, mrCall,
                 mrRet>>
  /\ MrFrame

MrModes ==
  [FI_MR_VIRT_ADDR : BOOLEAN, FI_MR_PROV_KEY : BOOLEAN, otherBasic : BOOLEAN]

MrNext ==
  \/ \E mode \in MrModes, heapSize \in 0 .. MaxHeapSize,
        starts \in [MrNodes -> 1 .. MaxHeapStart],
        keys \in [MrNodes -> MrProvKeys] :
       mr_init_ofiForMem(mode, heapSize, starts, keys)
  \/ \E iNode \in MrNodes, addr \in 0 .. MaxMrAddr, size \in 0 .. MaxMrSize :
       mr_mrGetKey(iNode, addr, size)
  \/ mr_next

vars == <<tciVars, mcmVars, barVars, cqVars, extVars>>

\* The transmit-context table at rest, for the specifications that do not
\* run it.
TciAtRest == TciInit /\ numWorkerTxCtxs = 1

\* The task and the fabric at rest.
McmAtRest == McmInit /\ haveDeliveryComplete /\ tcipBound
\* The barrier at rest.
BarAtRest == BarInit /\ ~barOob
\* The completion-queue accounting at rest.
CqAtRest == CqInit /\ cqSize = txCQLen

\* The buffered AMOs at rest.
NfAtRest == NfInit /\ nfK = 1
\* The splitting of transfers at rest.
CkAtRest == CkInit /\ max_msg_size = 1
\* The parts after PART 11 at rest.
LateAtRest == TlbInit /\ MrInit
\* The parts after PART 4 at rest.
ExtAtRest ==
  /\ PvInit /\ NfAtRest /\ CkAtRest /\ AmhInit /\ XoInit /\ LzInit /\ AmvInit
  /\ LateAtRest

Init == TciInit /\ McmAtRest /\ BarAtRest /\ CqAtRest /\ ExtAtRest
SpecTci == Init /\ [][TciNext]_vars

\* A thread that has made MaxAllocs calls has more calls to make: the
\* count starts again.
tciCallsGoOn(t) ==
  /\ tciPc[t] = "idle"
  /\ tciAllocs[t] = MaxAllocs
  /\ tciAllocs' = [tciAllocs EXCEPT ![t] = 0]
  /\ UNCHANGED <<numWorkerTxCtxs, tciTabFixedAssignments, tciAllocated,
                 tciBound, ttcip, last_iw, tciPc, scan_iw, scan_allBound,
                 scan_tcip, tciHeld, tciBoundBy, tciViaCache, tciScanFirst>>
  /\ UNCHANGED nonTciVars

TciFairNext == TciNext \/ \E t \in TciThreads : tciCallsGoOn(t)

\* The steps of a thread inside tciAlloc(), and its tciFree().
TciStep(t) ==
  \/ tciAllocCommon_realloc(t)
  \/ findFreeTciTabEntry_amHandler(t)
  \/ findFreeTciTabEntry_start(t)
  \/ findFreeTciTabEntry_readBound(t)
  \/ findFreeTciTabEntry_xchg(t)
  \/ findFreeTciTabEntry_yield(t)
  \/ tciAllocCommon_bind(t)
  \/ tciFree(t)

\* Every thread is scheduled again and again, so a thread inside
\* tciAlloc() takes its next step and a thread that holds a context frees
\* it; nothing says that a thread calls tciAlloc() again, nor which of two
\* threads reaches an entry first.
SpecTciFair ==
  /\ Init /\ [][TciFairNext]_vars
  /\ \A t \in TciThreads : WF_vars(TciStep(t))

McmInitAll == McmInit /\ TciAtRest /\ BarAtRest /\ CqAtRest /\ ExtAtRest
SpecMcm == McmInitAll /\ [][McmNext]_vars

BarInitAll == BarInit /\ McmInit /\ TciAtRest /\ CqAtRest /\ ExtAtRest
SpecBar == BarInitAll /\ [][BarNext]_vars

\* The steps of a node inside chpl_comm_barrier().
BarStep(n) ==
  \/ chpl_comm_ofi_oob_barrier(n)
  \/ bar_waitForPutsVis(n)
  \/ bar_waitChildren(n)
  \/ bar_notifyParent(n)
  \/ bar_notifyParent_wait(n)
  \/ bar_waitRelease(n)
  \/ bar_clearFlags(n)
  \/ bar_releaseChildren(n)
  \/ bar_releaseChildren_wait(n)

\* A task inside chpl_comm_barrier() is scheduled again and again (its
\* waits are loops around local_yield()), and the fabric delivers every PUT
\* it has accepted.  Nothing says when a node calls the barrier.
SpecBarFair ==
  /\ BarInitAll /\ [][BarNext]_vars
  /\ \A n \in BarNodes : WF_vars(BarStep(n))
  /\ WF_vars(\E p \in barNet : barDeliver(p))

CqInitAll == CqInit /\ McmInit /\ TciAtRest /\ BarAtRest /\ ExtAtRest
SpecCq == CqInitAll /\ [][CqNext]_vars

PvInitAll ==
  /\ PvInit /\ McmInit /\ TciAtRest /\ BarAtRest /\ CqAtRest /\ NfAtRest
  /\ CkAtRest /\ AmhInit /\ XoInit /\ LzInit /\ AmvInit /\ LateAtRest
SpecPutV == PvInitAll /\ [][PvNext]_vars

NfInitAll ==
  /\ NfInit /\ McmInit /\ TciAtRest /\ BarAtRest /\ CqAtRest /\ PvInit
  /\ CkAtRest /\ AmhInit /\ XoInit /\ LzInit /\ AmvInit /\ LateAtRest
SpecAmoNf == NfInitAll /\ [][NfNext]_vars

CkInitAll == CkInit /\ McmAtRest /\ TciAtRest /\ BarAtRest /\ CqAtRest
             /\ PvInit /\ NfAtRest /\ AmhInit /\ XoInit /\ LzInit /\ AmvInit
             /\ LateAtRest
SpecChunk == CkInitAll /\ [][CkNext]_vars

AmhInitAll == AmhInit /\ McmInit /\ TciAtRest /\ BarAtRest /\ CqAtRest
              /\ PvInit /\ NfAtRest /\ CkAtRest /\ XoInit /\ LzInit /\ AmvInit
              /\ LateAtRest
\* The threads are scheduled again and again, the provider accepts an
\* operation that is offered to it again and again, and the fabric
\* completes what it has accepted.  Nothing says when requests arrive, when
\* the provider answers -FI_EAGAIN or when fini_amHandling() is called.
SpecAmhFair ==
  /\ AmhInitAll /\ [][AmhNext]_vars
  /\ WF_vars(amHandler_processRxAmReq)
  /\ WF_vars(amh_ofi_put)
  /\ WF_vars(amh_waitForTxnComplete)
  /\ WF_vars(amh_amSendDone)
  /\ WF_vars(amhFabricComplete)
  /\ WF_vars(amHandler_leave)
  /\ WF_vars(amh_fini_amHandling_return)

XoInitAll == XoInit /\ McmAtRest /\ TciAtRest /\ BarAtRest /\ CqAtRest
             /\ PvInit /\ NfAtRest /\ CkAtRest /\ AmhInit /\ LzInit /\ AmvInit
             /\ LateAtRest
SpecExecOn == XoInitAll /\ [][XoNext]_vars

LzInitAll == LzInit /\ McmAtRest /\ TciAtRest /\ BarAtRest /\ CqAtRest
             /\ PvInit /\ NfAtRest /\ CkAtRest /\ AmhInit /\ XoInit
             /\ AmvInit /\ LateAtRest
SpecAmLZ == LzInitAll /\ [][LzNext]_vars

AmvInitAll == AmvInit /\ McmInit /\ TciAtRest /\ BarAtRest /\ CqAtRest
              /\ PvInit /\ NfAtRest /\ CkAtRest /\ AmhInit /\ XoInit
              /\ LzInit /\ LateAtRest
SpecAmoVis == AmvInitAll /\ [][AmvNext]_vars

\* The parts up to PART 11 at rest.
EarlyAtRest ==
  /\ TciAtRest /\ BarAtRest /\ CqAtRest /\ PvInit /\ NfAtRest /\ CkAtRest
  /\ AmhInit /\ XoInit /\ LzInit /\ AmvInit

TlbInitAll == TlbInit /\ McmInit /\ EarlyAtRest /\ MrInit
SpecTlb == TlbInitAll /\ [][TlbNext]_vars

MrInitAll == MrInit /\ McmAtRest /\ EarlyAtRest /\ TlbInit
SpecMr == MrInitAll /\ [][MrNext]_vars

\* C10: in every reachable state the CQ-backed transmit context has
\* numTxnsOut <= txCQLen, whatever the order and delay of completions.
C10_TxnsOutWithinCQLen == numTxnsOut <= txCQLen

\* C1: between a tciAlloc() that returned entry X to a thread and that
\* thread's tciFree(X), tciAlloc() returns X to no other thread: no two
\* threads hold the same entry at once.
C1_TciMutualExclusion ==
  \A t1 \in TciThreads : \A t2 \in TciThreads :
    (t1 # t2 /\ tciHeld[t1] # NULL) => tciHeld[t1] # tciHeld[t2]

\* C9: a bound entry is only ever returned to the thread that bound it (in
\* particular by the unsynchronized cached fast path), and a bound entry
\* stays allocated.
C9_BoundOnlyToBinder ==
  /\ \A t \in TciThreads :
       (tciHeld[t] # NULL /\ tciBound[tciHeld[t]]) => tciBoundBy[tciHeld[t]] = t
  /\ \A i \in TciIndexes : tciBound[i] => tciAllocated[i]

\* C2: within one task a GET of a remote range returns what the task's last
\* PUT to that range wrote, in both provider modes, with bound and unbound
\* contexts, by direct RMA (injected or not) and by the AM-proxy path.
C2_GetSeesOwnPut ==
  (task.pc = "idle" /\ task.op = "get")
    => task.getBuf = hist.lastPut[task.node][task.addr]

\* A GET from another node has returned after the task PUT to the same
\* range through a bound context of a message-order provider.
C2_Witness ==
  /\ task.pc = "idle" /\ task.op = "get" /\ task.node # chpl_nodeID
  /\ hist.lastPut[task.node][task.addr] # 0
  /\ ~haveDeliveryComplete /\ tcipBound

\* The blocking executeOn requests that are sent and whose body has not run.
PendingExecOn ==
  {net[i].req : i \in {j \in 1 .. Len(net) : net[j].kind = "send"}}
    \cup UNION {{amq[n][i] : i \in 1 .. Len(amq[n])} : n \in Nodes}
    \cup {m.req : m \in moved}

\* C3: when a blocking executeOn request has been sent, every PUT the task
\* issued before the call, to any node, is in its target memory, so the
\* body observes it.
C3_ExecOnSeesPuts ==
  \A r \in PendingExecOn :
    (r.op \in {"ExecOn", "ExecOnLrg"} /\ r.pAmDone = "amDone")
      => mem = hist.lastPut

\* A blocking executeOn request is on its way after the task injected a
\* PUT through a bound context of a message-order provider.
C3_Witness ==
  /\ \E r \in PendingExecOn :
       r.op \in {"ExecOn", "ExecOnLrg"} /\ r.pAmDone = "amDone"
  /\ \E n \in Peers : \E a \in Addrs : hist.lastPut[n][a] # 0
  /\ ~haveDeliveryComplete /\ tcipBound

Applied(id) == \E k \in 1 .. Len(hist.amoApplied) : hist.amoApplied[k] = id
AppliedAt(id) == CHOOSE k \in 1 .. Len(hist.amoApplied) : hist.amoApplied[k] = id

\* C4: two consecutively issued ordered AMOs of the task on the same object,
\* at least one of them a write, take effect in issue order, whichever route
\* each takes.
C4_AmoIssueOrder ==
  \A k \in 1 .. (Len(hist.amoIssued) - 1) :
    LET a == hist.amoIssued[k]
        b == hist.amoIssued[k + 1]
    IN  (a.node = b.node /\ (a.write \/ b.write) /\ Applied(b.id))
          => (Applied(a.id) /\ AppliedAt(a.id) < AppliedAt(b.id))

DoneWrites(rid) ==
  Cardinality({k \in 1 .. Len(hist.reqDone) : hist.reqDone[k] = rid})

\* C5: a blocking AM request returns only after the target has executed it
\* and written the 'done' indicator; the target writes 'done' at most once
\* for a request and never for a request whose indicator pointer is null.
C5_BlockingAmDone ==
  /\ \A rid \in hist.returned : rid \in hist.reqExec /\ DoneWrites(rid) = 1
  /\ \A rid \in 1 .. nextId : DoneWrites(rid) <= 1
  /\ \A rid \in hist.reqNoDone : DoneWrites(rid) = 0

\* A blocking AM request has returned, and a request without an indicator
\* has been executed.
C5_Witness ==
  /\ hist.returned # {}
  /\ hist.reqNoDone \cap hist.reqExec # {}

\* C8: the task never yields (local_yield(), chpl_task_yield()) while it
\* holds a transmit context that is not bound.
C8_NoYieldHoldingUnbound ==
  task.pc = "local_yield" => (task.tcip = NULL \/ tcipBound)

\* C6: no node returns from its k-th chpl_comm_barrier() before every node
\* has entered its k-th, whatever the order the notify and release PUTs
\* land in, back to back barriers included; and a node's flags are all zero
\* again when it starts to release its children.
C6_BarrierSafety ==
  /\ \A n \in BarNodes : \A m \in BarNodes : barReturned[n] <= barEntered[m]
  /\ \A n \in BarNodes :
       (barPc[n] = "release" /\ bar_i[n] = 0)
         => /\ parent_release[n] = 0
            /\ \A i \in 0 .. (BAR_TREE_NUM_CHILDREN - 1) : child_notify[n][i] = 0

\* Every node has returned from its last tree barrier, the one that
\* follows another.
C6_Witness ==
  /\ ~barOob
  /\ \A n \in BarNodes : barReturned[n] = MaxBarriers

\* The node has called the barrier of chpl_comm_pre_task_exit().
InExitBarrier(n) == exiting[n] /\ barEntered[n] = MaxBarriers

\* C7: node 0 sends am_opShutdown to every other node; a node other than 0
\* enters the exit barrier only after its AM handler has processed Shutdown
\* and flipped the signal; no node leaves that barrier, stops its AM
\* handler or exits before every node has reached it.
C7_ShutdownOrdering ==
  /\ InExitBarrier(0) => shutdownSent = BarNodes \ {0}
  /\ \A n \in BarNodes \ {0} : InExitBarrier(n) => shutdownSignal[n]
  /\ \A n \in BarNodes :
       (barPc[n] \in {"fini", "fini_wait", "exited"} \/ amHandlersExit[n])
         => \A m \in BarNodes : InExitBarrier(m)

\* A node other than node 0 has gone through the shutdown and exited.
C7_Witness ==
  /\ ~barOob
  /\ \E n \in BarNodes \ {0} : barPc[n] = "exited"

\* C11: when the flush of a task's buffered PUTs has returned, the memory of
\* every target node is what the same PUTs, issued one by one in order by
\* ofi_put(), produce: every PUT of the batch has taken effect, in order.
C11_PutVAsOneByOne ==
  (pvPc = "idle" /\ pvBuf = <<>> /\ pvFlushes > 0) => pvMem = pvRef

\* C12: when every node but 0 has made K buffered non-fetching "add 1" AMOs
\* on one counter of node 0 and flushed them, and all nodes have passed a
\* barrier, node 0 reads initial value + (number of nodes - 1) * K.
C12_CounterAfterBarrier ==
  nfRead # NULL => nfRead = (chpl_numNodes - 1) * nfK

\* C13: a PUT whose destination on the peer is not addressable by MR is
\* carried out by proxy (am_opGet): when the PUT has returned, the
\* destination holds the source value and the initiator's 'done' flag is set.
C13_ProxyPutDone ==
  (/\ task.pc = "idle" /\ task.op = "put"
   /\ task.node # chpl_nodeID /\ ~mrGetKey(task.addr))
  => (mem[task.node][task.addr] = task.val /\ task.amDone # 0)

\* A PUT to a non-registered address of a peer has returned.
C13_Witness ==
  /\ task.pc = "idle" /\ task.op = "put"
  /\ task.node # chpl_nodeID /\ ~mrGetKey(task.addr)
  /\ task.req.op = "Get" /\ task.req.rid \in hist.returned

\* C14: an ofi_put() or ofi_get() of a size above max_msg_size issues
\* exactly ceil(size / max_msg_size) transfers, none longer than
\* max_msg_size, whose local and remote ranges follow one another without
\* gap or overlap and cover exactly [0, size).
C14_ChunksCoverExactly ==
  (ckPc = "done" /\ ckSize > max_msg_size) =>
    /\ Len(ckXfers) = (ckSize + max_msg_size - 1) \div max_msg_size
    /\ \A k \in 1 .. Len(ckXfers) :
         /\ ckXfers[k].len >= 1 /\ ckXfers[k].len <= max_msg_size
         /\ ckXfers[k].loff = (IF k = 1 THEN 0
                                ELSE ckXfers[k - 1].loff + ckXfers[k - 1].len)
         /\ ckXfers[k].roff = ckXfers[k].loff
    /\ ckXfers[Len(ckXfers)].loff + ckXfers[Len(ckXfers)].len = ckSize

\* A transfer whose size is not a multiple of max_msg_size has been split
\* into three or more chunks.
C14_Witness ==
  /\ ckPc = "done" /\ ckSize > max_msg_size
  /\ ckSize % max_msg_size # 0
  /\ Len(ckXfers) >= 3

\* C15: wherever a fabric operation is issued, an answer of -FI_EAGAIN is
\* met by running ensure-progress and trying again; it never ends the
\* program.
C15_EagainNeverAborts == cqPc # "aborted"

C17_HandlerLeaves ==
  amhExit ~> (amhPc = "exited" /\ amhActive = 0 /\ amhFini = "returned")

\* C18: numTxnsOut of a context is the number of its non-injected
\* operations the fabric has accepted less the completions consumed: it is
\* never negative and it is 0 exactly when nothing is outstanding.
C18_TxnsOutIsOutstanding ==
  amhNumTxnsOut = (IF amhWriteOut THEN 1 ELSE 0)


\* C19: when the target node is the caller's own node no fabric operation is
\* issued: the calling node never hands the fabric an operation whose target
\* is the calling node itself.
C19_OwnNodeNoFabric ==
  \A i \in 1..Len(net) :
    ~(net[i].src = chpl_nodeID /\ net[i].node = chpl_nodeID)

\* C19, amended: a PUT or a GET to the calling node is a memmove() with no
\* fabric operation, and an AMO to the calling node is done by doCpuAMO()
\* when the network cannot do it; the one fabric operation the calling node
\* aims at itself is the native atomic of doAMO(), line 5549.
C19_OwnNodeFabricOnlyNativeAmo ==
  /\ \A i \in 1..Len(net) :
       (net[i].src = chpl_nodeID /\ net[i].node = chpl_nodeID)
         => net[i].kind = "atomic"
  /\ task.pc = "doCpuAMO" => (task.node = chpl_nodeID /\ ~task.native)
  /\ (task.node = chpl_nodeID /\ task.op \in {"put", "get"})
       => task.pc \in {"retire", "local_yield", "put", "get", "idle"}

\* C19 witness: the calling node has a native atomic to itself in the fabric.
C19_Witness ==
  \E i \in 1..Len(net) :
    /\ net[i].src = chpl_nodeID /\ net[i].node = chpl_nodeID
    /\ net[i].kind = "atomic"


\* C20: an executeOn whose bundle fits the size of a request, exactly
\* included, is sent as one am_opExecOn carrying the whole bundle; a larger
\* one is sent as am_opExecOnLrg carrying the header and the payload's
\* address, and the target GETs the payload; no size is an error and the
\* body function is called with the whole bundle, never a truncated one.
C20_ExecOnBySize ==
  /\ xoMsg # XoNull =>
       IF xoArg.argSize <= sizeof_amRequest_t
         THEN /\ xoMsg.kind = "am_opExecOn"
              /\ xoMsg.size = xoArg.argSize
              /\ xoMsg.payload = xoArg.payload
         ELSE /\ xoMsg.kind = "am_opExecOnLrg"
              /\ xoMsg.size = sizeof_xol
              /\ xoMsg.payload = <<>>
              /\ xoMsg.pPayload \in {"arg", "copy"}
  /\ xoTgt # "aborted"
  /\ xoTgt = "amWrapExecOnLrgBody" => xoArg.argSize > sizeof_amRequest_t
  /\ xoTgt \in {"amWrapExecOnBody", "ran"} =>
       /\ xoBundle.comm.argSize = xoArg.argSize
       /\ xoBundle.payload = xoArg.payload

\* C20 witness: the body function has run on a bundle that exactly fits a
\* request and was sent inline.
C20_Witness ==
  /\ xoTgt = "ran"
  /\ xoArg.argSize = sizeof_amRequest_t
  /\ xoXol = XoNull

\* C20 witness of the large case: the body function has run on a bundle the
\* target fetched after the nonblocking caller destroyed its own.
C20_WitnessLrg ==
  /\ xoTgt = "ran"
  /\ xoArg.argSize > sizeof_amRequest_t
  /\ xoXol # XoNull /\ xoMem.arg = XoGone


\* C21: while the AM handler runs, the AM receive endpoint is never without
\* a posted multi-receive buffer into which an arriving request can land.
C21_AlwaysABufferPosted == lzPosted # <<>>


\* C22: once every node has called chpl_comm_barrier() for the k-th time,
\* every node returns from its k-th call: no node waits forever for a
\* child's notify flag or for its parent's release.
C22_BarrierLiveness ==
  \A k \in 1 .. MaxBarriers :
    (\A m \in BarNodes : barEntered[m] >= k)
      ~> (\A n \in BarNodes : barReturned[n] >= k)

\* C22 witness: every node has returned from a second tree barrier, which
\* it entered with the flags the first one left.
C22_Witness ==
  /\ ~barOob
  /\ \A n \in BarNodes : barReturned[n] = MaxBarriers /\ barPc[n] = "fini"


\* What ofi_put() hands the fabric in a step.
C23_Issued == SubSeq(net', Len(net) + 1, Len(net'))
C23_IsThePut(o, waited) ==
  /\ o.kind = "write" /\ o.src = chpl_nodeID /\ o.node = task.node
  /\ o.addr = task.addr /\ o.val = task.val /\ o.waited = waited
C23_BitmapUnchanged ==
  /\ task'.putBitmap = task.putBitmap
  /\ task'.hasPutBitmap = task.hasPutBitmap

\* C23, the issue: in delivery-complete mode ofi_put() issues the write
\* with a 'done' context and waits for it; otherwise, on a bound context
\* and with a size that can be injected, it issues the write alone, sets
\* the peer's bit of put_bitmap and returns; otherwise it issues the write
\* and at once a dummy GET from the same peer on the same context, waits
\* for the GET, and leaves put_bitmap as it was.
C23_PutIssue ==
  (/\ task.pc = "put" /\ task'.pc # "put"
   /\ task.node # chpl_nodeID /\ mrGetKey(task.addr))
  => IF haveDeliveryComplete
       THEN /\ Len(C23_Issued) = 1
            /\ C23_IsThePut(C23_Issued[1], TRUE)
            /\ task'.pc = "put_wait" /\ task'.txnId = C23_Issued[1].id
            /\ C23_BitmapUnchanged
     ELSE IF tcipBound /\ task.size = "small"
       THEN /\ Len(C23_Issued) = 1
            /\ C23_IsThePut(C23_Issued[1], FALSE)
            /\ task'.pc = "idle"
            /\ task'.hasPutBitmap
            /\ task'.putBitmap = task.putBitmap \cup {task.node}
     ELSE /\ Len(C23_Issued) = 2
          /\ C23_IsThePut(C23_Issued[1], FALSE)
          /\ C23_Issued[2].kind = "read" /\ C23_Issued[2].waited
          /\ C23_Issued[2].node = task.node
          /\ C23_Issued[2].ctx = C23_Issued[1].ctx
          /\ task'.pc = "put_wait" /\ task'.txnId = C23_Issued[2].id
          /\ C23_BitmapUnchanged

\* C23, the return: an ofi_put() that waits returns only when the operation
\* it waits for has completed at the peer.
C23_PutReturn ==
  (task.pc = "put_wait" /\ task'.pc # "put_wait")
  => /\ NetOpOfId(task.txnId).applied
     /\ C23_BitmapUnchanged

\* C23: ofi_put() to an MR-addressable peer follows exactly one of the three
\* completion disciplines, chosen by the mode, the context and the size.
C23_PutDiscipline == [][C23_PutIssue /\ C23_PutReturn]_vars

\* C23 witness: outside delivery-complete mode ofi_put() waits for the
\* dummy GET that follows its write.
C23_Witness ==
  /\ task.pc = "put_wait" /\ ~haveDeliveryComplete
  /\ \E i \in 1 .. Len(net) :
       /\ net[i].id = task.txnId /\ net[i].kind = "read"
       /\ net[i].addr = "dummy"


\* C24, the bits that are set: between two operations of the task, a peer
\* to which the task has a PUT on its way that no GET or dummy GET has
\* been completed after has its bit set in put_bitmap.
C24_PendingPutHasBit ==
  task.pc = "idle" =>
    \A i \in 1 .. Len(net) :
      (net[i].src = chpl_nodeID /\ net[i].kind = "write" /\ ~net[i].applied)
        => net[i].node \in task.putBitmap

\* C24, the bits that are cleared: a bit of put_bitmap is cleared only by a
\* GET from that peer on a bound context, by waitForPutsVisOneNode() for
\* that peer or by an all-nodes visibility wait, each of which issues a GET
\* or dummy GET from the peer.
C24_BitClearedByGet ==
  \A p \in task.putBitmap \ task'.putBitmap :
    /\ \/ task.pc = "get" /\ p = task.node /\ tcipBound
       \/ task.pc = "waitForPutsVisOneNode" /\ p = task.node
       \/ task.pc = "waitForPutsVisAllNodes"
    /\ Len(net') = Len(net) + 1
    /\ net'[Len(net')].kind = "read" /\ net'[Len(net')].node = p
    /\ net'[Len(net')].src = chpl_nodeID

\* C24: put_bitmap tracks the peers with PUTs not yet forced visible.
C24_PutBitmapTracks ==
  []C24_PendingPutHasBit /\ [][C24_BitClearedByGet]_vars

\* C24 witness: between two operations an injected PUT is still on its way
\* to a peer, another peer's bit having been cleared by a GET.
C24_Witness ==
  /\ task.pc = "idle" /\ task.op = "get" /\ task.putBitmap # {}
  /\ \E i \in 1 .. Len(net) :
       net[i].src = chpl_nodeID /\ net[i].kind = "write" /\ ~net[i].applied


\* The task is in amRequestCommon() and has not yet sent the request.
C25_BeforeSend ==
  \/ task.pc = "amRequestCommon"
  \/ /\ task.pc \in {"waitForPutsVisAllNodes", "waitForPutsVisOneNode",
                     "vis_wait"}
     /\ task.visRet = "amSend"
C25_ScopeAll ==
  task.req.op \in {"ExecOn", "ExecOnLrg"}
    \/ (task.req.op = "AMO" /\ task.req.ofiOp # "read")
C25_ScopeOne == task.req.op \in {"Get", "Put"}
\* What the task hands the fabric in a step.
C25_Issued ==
  SelectSeq(SubSeq(net', Len(net) + 1, Len(net')),
            LAMBDA o : o.src = chpl_nodeID)
C25_PutOnItsWay(n) ==
  \E i \in 1 .. Len(net) :
    /\ net[i].src = chpl_nodeID /\ net[i].kind = "write"
    /\ net[i].node = n /\ ~net[i].applied

\* C25, at the send: an ExecOn, an ExecOnLrg and an AMO that is not a read
\* are sent with every PUT of the task visible and put_bitmap empty;
\* am_opGet and am_opPut are sent with the PUTs to the target visible and
\* the target's bit clear.
C25_VisibleAtSend ==
  task.pc = "amSend" =>
    /\ C25_ScopeAll =>
         task.putBitmap = {} /\ \A n \in Peers : ~C25_PutOnItsWay(n)
    /\ C25_ScopeOne =>
         task.node \notin task.putBitmap /\ ~C25_PutOnItsWay(task.node)

\* C25, before the send: for am_opGet and am_opPut only the target's bit
\* changes and only the target is read from; for every other request but
\* ExecOn, ExecOnLrg and an AMO that is not a read, put_bitmap stays as it
\* is and nothing is issued.
C25_ScopeBeforeSend ==
  C25_BeforeSend =>
    IF C25_ScopeAll
      THEN \A i \in 1 .. Len(C25_Issued) :
             /\ C25_Issued[i].kind = "read"
             /\ C25_Issued[i].node \in task.putBitmap
    ELSE IF C25_ScopeOne
      THEN /\ task.putBitmap \ {task.node} = task'.putBitmap \ {task.node}
           /\ \A i \in 1 .. Len(C25_Issued) :
                C25_Issued[i].kind = "read" /\ C25_Issued[i].node = task.node
    ELSE /\ task'.putBitmap = task.putBitmap
         /\ C25_Issued = <<>>
         /\ task'.pc \in {"amRequestCommon", "amSend"}

C26_AmoAfterPutsVisible ==
  \A i \in 1 .. Len(amvIssued) :
    (amvIssued[i].kind = "amo" /\ amvIssued[i].ofiOp # "read")
      => amvIssued[i].putsOut = {}

\* C27: a task has at most one delayed AM outstanding, and while
\* amDonePending is set its next MCM-significant event (PUT, AMO, flush of
\* the buffered operations, ...) waits for amDone and clears amDonePending
\* before it issues any communication.
C27_RetiredBeforeIssue ==
  /\ amvAmNet <= 1
  /\ \A i \in 1 .. Len(amvIssued) :
       IF amvIssued[i].kind = "am"
         THEN amvIssued[i].amOut = 0
         ELSE ~amvIssued[i].donePending


\* C28: when chpl_comm_impl_task_end() has returned, every PUT the task
\* issued, the buffered ones its end flushed included, is in the memory of
\* its target: the fabric holds no write of the task any more, in either
\* mode and on either kind of context.
C28_TaskEndPutsVisible ==
  pvTaskEnd = "ended" =>
    /\ \A i \in 1 .. Len(pvNet) : pvNet[i].kind # "write"
    /\ pvMem = pvRef


\* C29: a worker's scan visits the worker range cyclically, starting from
\* the thread's last index, which is the index of the thread's latest
\* successful allocation by a scan, and returns the first entry whose
\* 'allocated' flag it turns from false to true.
C29_ScanFromLastIndex ==
  \A t \in WorkerThreads :
    /\ ttcip[t] # NULL => last_iw[t] = ttcip[t]
    /\ (tciPc[t] \in {"scanXchg", "bind"} /\ tciScanFirst[t] # NULL)
         => tciScanFirst[t] = NextIw(last_iw[t])
    /\ tciPc[t] = "bind" => (scan_tcip[t] = scan_iw[t] /\ scan_iw[t] >= 0
                              /\ scan_iw[t] < numWorkerTxCtxs
                              /\ tciAllocated[scan_tcip[t]])


\* C30: worker and AM-handler contexts are disjoint: the AM handler only
\* ever gets an entry with index in [numWorkerTxCtxs, tciTabLen), and that
\* entry is bound; a worker only ever gets an entry with index in
\* [0, numWorkerTxCtxs); so neither ever holds an entry of the other's.
C30_WorkerAndHandlerDisjoint ==
  /\ \A t \in AmHandlerThreads :
       tciHeld[t] # NULL =>
         /\ tciHeld[t] \in numWorkerTxCtxs .. (tciTabLen - 1)
         /\ tciBound[tciHeld[t]]
  /\ \A t \in WorkerThreads :
       tciHeld[t] # NULL => tciHeld[t] \in 0 .. (numWorkerTxCtxs - 1)
  /\ \A t \in WorkerThreads : \A h \in AmHandlerThreads :
       tciHeld[t] # NULL => (tciHeld[t] # tciHeld[h] /\ tciHeld[t] # ttcip[h])

\* The AM handler holds its entry through the cached path while a worker
\* holds an entry of its own range.
C30_Witness ==
  /\ \E h \in AmHandlerThreads : tciHeld[h] # NULL /\ tciViaCache[h]
  /\ \E t \in WorkerThreads : tciHeld[t] # NULL


\* A worker is inside tciAlloc().
C31_InAlloc(t) ==
  tciPc[t] \in {"realloc", "find", "scanBound", "scanXchg", "yield", "bind"}

\* C31, as stated: while a worker entry is not bound and every holder of
\* such an entry frees it, every tciAlloc() of a worker returns a context
\* in the end.
C31_EveryAllocReturns ==
  \A t \in WorkerThreads :
    (C31_InAlloc(t) /\ \E i \in 0 .. (numWorkerTxCtxs - 1) : ~tciBound[i])
      ~> (tciPc[t] = "held")

\* C31, amended: a worker inside tciAlloc() is never aborted while an
\* entry is not bound, and in the end its tciAlloc() returns or another
\* worker has got an entry that is not bound ahead of it: the scan yields
\* and starts again, but nothing keeps it from losing every race.
C31_SomeAllocReturns ==
  /\ [](\A t \in WorkerThreads : tciPc[t] # "abort")
  /\ \A t \in WorkerThreads :
       C31_InAlloc(t)
         ~> \/ tciPc[t] = "held"
            \/ \E u \in WorkerThreads \ {t} :
                 tciPc[u] = "held" /\ ~tciBound[tciHeld[u]]

\* A worker has yielded after a pass that got no entry, while another
\* worker holds the entry, which is not bound, and has calls left to make.
C31_Witness ==
  \E t \in WorkerThreads : \E u \in WorkerThreads \ {t} :
    /\ tciPc[t] = "yield"
    /\ tciPc[u] = "held" /\ ~tciBound[tciHeld[u]]
    /\ tciAllocs[t] = 1


\* C32: when ofi_get_V() has returned, every GET of the batch has
\* completed: numTxnsOut is 0, no operation of the context is in flight and
\* no completion event is unread.  (The completion event of a read follows
\* the arrival of its data in the destination.)
C32_GetVDrained ==
  (cqPc = "idle" /\ cqAfter = "get_V")
    => (numTxnsOut = 0 /\ cqFlightId = 0 /\ cqFlightDone = 0
        /\ cqEvId = 0 /\ cqEvDone = 0)

\* ofi_get_V() has returned from a batch issued on a context that had
\* operations of earlier calls outstanding.
C32_Witness ==
  /\ cqPc = "idle" /\ cqAfter = "get_V"
  /\ numTxnsSent > MAX_CHAINED_GET_LEN
  /\ cqOps >= 2

\* A batch is being issued by ofi_put_V(), ofi_amo_nf_V() or ofi_get_V().
C33_BatchIssuing ==
  \/ cqPc = "issue" /\ cqAfter \in {"release", "return"} /\ cqIssueId > 0
  \/ cqPc \in {"get_V", "get_V_issue"}

\* C33: a batch is issued only once numTxnsOut + B <= txCQLen, whatever
\* numTxnsOut was on entry; so while a batch is being issued the
\* operations counted and those still to issue fit in txCQLen.
C33_BatchFitsCQ ==
  C33_BatchIssuing =>
    numTxnsOut + (IF cqPc = "get_V_issue" THEN cqIssueId - 1 ELSE cqIssueId)
      <= txCQLen

\* C34: whenever a buffered operation can be entered the entry count of
\* each task-local buffer is at least 0 and below the buffer's length, it
\* never exceeds the length, and when a fence or the end of the task has
\* returned every selected buffer that exists has vi = 0 and every
\* operation buffered in it has gone to the fabric.
C34_ViInRange ==
  /\ \A b \in BuffTypes : tlbVi[b] \in 0 .. MaxChained(b)
  /\ tlbPc = "idle" => \A b \in BuffTypes : tlbVi[b] < MaxChained(b)
  /\ (tlbPc = "idle" /\ tlbCall.kind \in {"flush", "end", "task_end"})
       => \A b \in tlbCall.all : tlbVi[b] = 0 /\ tlbSent[b] = tlbOps[b]

\* A fence has returned after a buffer was flushed full and then again
\* with one entry.
C34_Witness ==
  /\ tlbPc = "idle" /\ tlbCall.kind = "flush"
  /\ \E b \in tlbCall.all :
       /\ tlbOps[b] > MaxChained(b)
       /\ tlbSent[b] = tlbOps[b]
       /\ tlbPtr[b]

\* C38: when task_local_buff_end() has returned, each selected type's
\* buffer pointer is null and its memory freed.
C38_EndDestroysAll ==
  (tlbPc = "idle" /\ tlbCall.kind \in {"end", "task_end"})
    => \A b \in tlbCall.all : ~tlbPtr[b] /\ ~tlbHeap[b]

\* C39: while an operation that reads a slot of the PUT or AMO buffer is
\* in flight, the buffer is allocated and the slot holds what the
\* operation was issued to send.
C39_SlotsStableInFlight ==
  \A b \in {"put_buff", "amo_nf_buff"} :
    \A op \in tlbFlight[b] :
      tlbHeap[b] /\ tlbSlot[b][op.slot] = op.val

\* The call made a heap copy of the bundle's payload.
C35_Copied ==
  /\ xoPc # "idle"
  /\ ~FitsInRequest(xoArg.argSize)
  /\ heapCopyArg(xoArg.blocking, xoArg.registered)

\* C35: the heap copy of a large executeOn is freed at most once, only
\* after the target's GET of the payload, by the initiating task after
\* 'done' when the call is blocking and by the initiator's AM handler on
\* am_opFree when it is not; it is intact until then, it has been freed
\* when the executeOn is over, and the body function of a large executeOn
\* has run only with the payload the GET brought.
C35_HeapCopyFreedOnce ==
  /\ Len(xoFrees) <= 1
  /\ xoFrees # <<>> =>
       /\ C35_Copied
       /\ xoTgt \in {"amWrapExecOnBody", "ran"}
       /\ xoBundle.payload = xoArg.payload
       /\ xoFrees = <<IF xoArg.blocking THEN "initiator" ELSE "handler">>
       /\ xoArg.blocking => xoDone
  /\ (C35_Copied /\ xoFrees = <<>>) => xoMem.copy = xoArg.payload
  /\ (C35_Copied /\ xoPc = "returned" /\ xoTgt = "ran" /\ xoFree = XoNull)
       => Len(xoFrees) = 1
  /\ (xoTgt = "ran" /\ ~FitsInRequest(xoArg.argSize))
       => xoBundle.payload = xoArg.payload

\* A nonblocking large executeOn is over and the handler has freed the
\* copy.
C35_Witness ==
  /\ C35_Copied /\ ~xoArg.blocking
  /\ xoTgt = "ran" /\ xoFree = XoNull
  /\ xoFrees = <<"handler">>
  /\ xoMem.copy = XoGone

\* The task sees the 'done' indicator of a request that writes back: an
\* AMO with a result, or the am_opPut of a proxied GET.
C36_DoneSeen ==
  /\ task.pc = "amWaitForDone"
  /\ task.req.pAmDone = "amDone"
  /\ DoneIndicated(task.amDone)
  /\ \/ task.req.op = "Put"
     \/ task.req.op = "AMO" /\ IsFetching(task.req.ofiOp)

\* C36: when the initiator sees the 'done' indicator of an AMO with a
\* result or of the am_opPut of a proxied GET, the request has been
\* executed, no write to the result or GET buffer is still on its way and
\* the GET buffer holds the target's data; in both provider modes, with
\* bound and unbound contexts.
C36_ResultBeforeDone ==
  C36_DoneSeen =>
    /\ task.req.rid \in hist.reqExec
    /\ \A i \in 1 .. Len(net) :
         ~(/\ net[i].kind = "write" /\ net[i].node = chpl_nodeID
           /\ net[i].addr \in {"getBuf", "amoResult"}
           /\ ~net[i].applied)
    /\ task.req.op = "Put" => task.getBuf = mem[task.node][task.req.addr]

\* The indicator of a proxied GET of a value PUT before is seen, outside
\* delivery-complete mode.
C36_Witness ==
  /\ C36_DoneSeen
  /\ ~haveDeliveryComplete
  /\ task.req.op = "Put"
  /\ task.getBuf # 0

\* C37: a fini_amHandling() that waits on the condition is signalled and
\* returns, and it returns only when numAmHandlersActive is 0.
C37_FiniHandshake ==
  /\ (amhFini = "cond_wait") ~> (amhFini = "returned")
  /\ [](amhFini = "returned" => amhActive = 0)

\* A lookup with basic registration has returned.
C40_BasicLookup == mrPc = "looked_up" /\ ~scalableMemReg

\* The range of the lookup lies within the target node's fixed heap.
C40_InHeap ==
  LET h == fixedHeap[mrCall.iNode]
  IN  /\ mrCall.addr >= h.start
      /\ mrCall.addr + mrCall.size <= h.start + h.size

\* C40, as stated: with basic registration mrGetKey() of a range inside the
\* heap succeeds with offset addr - heap base when FI_MR_VIRT_ADDR is set
\* and offset addr when it is not, and fails for any other range.
C40_OffsetAsStated ==
  C40_BasicLookup =>
    /\ mrRet.ret = (IF C40_InHeap THEN 0 ELSE 0 - 1)
    /\ C40_InHeap =>
         mrRet.off = IF mr_mode.FI_MR_VIRT_ADDR
                       THEN mrCall.addr - fixedHeap[mrCall.iNode].start
                       ELSE mrCall.addr

\* C40, amended: with basic registration mrGetKey() of a range inside the
\* target node's heap succeeds with that node's key and with offset addr
\* when FI_MR_VIRT_ADDR is set and addr - heap start when it is not, and
\* fails for any range that is not wholly inside the heap.
C40_OffsetByMode ==
  C40_BasicLookup =>
    /\ mrRet.ret = (IF C40_InHeap THEN 0 ELSE 0 - 1)
    /\ C40_InHeap =>
         /\ mrRet.off = IF mr_mode.FI_MR_VIRT_ADDR
                          THEN mrCall.addr
                          ELSE mrCall.addr - fixedHeap[mrCall.iNode].start
         /\ mrRet.key = memTabMap[mrCall.iNode][1].key

\* A lookup of a range inside a heap, above its start, without
\* FI_MR_VIRT_ADDR.
C40_Witness ==
  /\ C40_BasicLookup /\ C40_InHeap
  /\ ~mr_mode.FI_MR_VIRT_ADDR
  /\ mrCall.size > 0
  /\ mrCall.addr > fixedHeap[mrCall.iNode].start
  /\ mrRet.ret = 0

====
